---- MODULE Spec2Model ----
(***************************************************************************)
(* A model of the gnunet-rs client library: the frame codec and the        *)
(* dispatch loop of src/service/mod.rs, the GNS correlation registry of    *)
(* src/gns/mod.rs and the synchronous identity protocol of                 *)
(* src/identity/mod.rs.                                                    *)
(*                                                                         *)
(* Threads of the GNS part: the foreground caller (GNS::lookup,            *)
(* LookupHandle::recv, drops), the dispatch-loop thread                    *)
(* (spawn_callback_loop and the closure of GNS::connect) and the remote    *)
(* service.  The transport is a pair of byte streams.                      *)
(***************************************************************************)
EXTENDS Integers, Sequences, FiniteSets, TLC

VARIABLES
    \* ---- GNS object and foreground caller (src/gns/mod.rs)
    gnsAlive,     \* lookup_tx, the last field of the GNS value, exists
    lookup_id,    \* GNS.lookup_id
    lookup_q,     \* messages queued in the (lookup_tx, lookup_rx) channel: <<id, h>>
    chan,         \* the channel::<Record>() of every lookup: [id, queue, rx]
    lastRecv,     \* per handle, the record LookupHandle::recv returned last
    fg,           \* the foreground caller's position inside GNS::lookup
    ret,          \* what the last foreground call returned
    \* ---- dispatch-loop thread (src/service/mod.rs, closure of GNS::connect)
    loopPc,       \* "read" | "callback" | "send" | "return" | "exited"
    cur,          \* the frame read_message returned, while in the callback
    handles,      \* the closure's HashMap<u32, Sender<Record>>: id -> h
    \* ---- transport
    out,          \* bytes written by the client and received by the service
    wire,         \* bytes written by the service and not yet read by the loop
    svcClosed,    \* the service has closed the connection
    readShut,     \* shutdown(Shutdown::Read) has been called on the socket
    pending,      \* what the service put into each frame still on the wire
    nsent,        \* how many frames the service has sent
    missNo,       \* number of the last frame whose id the handler did not find
    exitBy,       \* what ended the loop: "none" while it runs
    \* ---- identity service (src/identity/mod.rs)
    idPc,         \* "start" | "bootstrap" | "ready" | "called" | "failed" | "panicked"
    egos,         \* IdentityService.egos: ego id -> [pk, name]
    idName,       \* the name get_default_ego was called with
    idWire,       \* bytes sent by the identity service and not yet read
    idClosed,     \* the identity service has closed the connection
    idOut,        \* bytes written to the identity service
    idRead,       \* how many frames the identity client has consumed
    idSent,       \* how many frames the identity service has sent
    idLog,        \* the frames the identity service has sent, in order
    idRet,        \* result of the last IdentityService call: [res, ego]
    \* ---- request-id counter of GNS over a long life (src/gns/mod.rs)
    aLookupId,    \* GNS.lookup_id, a u32 as <<high 16 bits, low 16 bits>>
    aBase,        \* lookup_id at the start: the ids below it were given out before
    aBuild,       \* "debug": overflow checks on; "release": off
    aQueue,       \* ids of the registrations queued in lookup_rx
    aMap,         \* ids inserted into the handles map since the start
    aCount,       \* lookups made since the start
    aPrev,        \* the id the previous lookup allocated, <<>> before the first
    aRet,         \* "none" | "Handle" | "panic": how the last lookup ended
    \* ---- peerinfo client (src/peerinfo/peerinfo.rs)
    pPc,          \* "off" | "start" | "iterating" | "failed"
    pWire,        \* bytes sent by the peerinfo service and not yet read
    pClosed,      \* the peerinfo service has closed the connection
    pOut,         \* bytes the client has written to the peerinfo service
    pLog,         \* the frames the peerinfo service has sent, in order
    pRead,        \* how many frames the iterator has consumed
    pItems,       \* what the calls of Peers::next returned, in order
    \* ---- one connection used through the frame codec (src/service/mod.rs)
    sPc,          \* "off" | "start" | "connected" | "failed" | "aborted"
    sRet,         \* what service::connect returned, [res, reader, writer], and
                  \* what it was called with
    sGrow,        \* how a full Vec grows: "exact" | "amortized"
    sPeer,        \* "echo": the peer sends back what it gets; "raw": any bytes
    msgWriter,    \* the MessageWriter being filled: [st, len, tpe, v, cap]
    sOut,         \* bytes written to the connection
    sFrames,      \* the frames sent: [len, tpe] as declared and the buffer v
    sIn,          \* bytes received and not yet read
    sEcho,        \* bytes the echoing peer has received and not yet sent back
    sEnd,         \* read direction: "open" | "eof" | "reset"
    sRawN,        \* chunks the raw peer has sent
    sMsgs,        \* what the calls of read_message returned, in order
    sRd,          \* the read_message call in progress: [pc, buf, need] and
                  \* whether its read found no byte and blocked
    \* ---- one call of a function of the utility modules
    fnName,       \* "none" or the function under study
    fnIn,         \* its arguments
    fnOut         \* what it has returned so far

gnsVars == <<gnsAlive, lookup_id, lookup_q, chan, lastRecv, fg, ret, loopPc, cur,
             handles, out, wire, svcClosed, readShut, pending, nsent, missNo,
             exitBy>>
idVars == <<idPc, egos, idName, idWire, idClosed, idOut, idRead, idSent, idLog,
            idRet>>
allocVars == <<aLookupId, aBase, aBuild, aQueue, aMap, aCount, aPrev, aRet>>
peerVars == <<pPc, pWire, pClosed, pOut, pLog, pRead, pItems>>
svcVars == <<sPc, sRet, sGrow, sPeer, msgWriter, sOut, sFrames, sIn, sEcho, sEnd,
             sRawN, sMsgs, sRd>>
fnVars == <<fnName, fnIn, fnOut>>
auxVars == <<allocVars, peerVars, svcVars, fnVars>>
vars == <<gnsVars, idVars, auxVars>>

-----------------------------------------------------------------------------
(* Bounds of the model.                                                    *)

\* frames written through one ServiceWriter
MaxSvcFrames == 2
\* writes into one MessageWriter
MaxWrites == 2
\* calls of read_message on one ServiceReader
MaxReads == 2
\* chunks a raw peer sends
MaxRaw == 2
\* frames the peerinfo service sends
MaxPeerFrames == 4
\* calls of Peers::next
MaxNext == 4
\* lookups issued on one connection
MaxLookups == 2
\* frames the GNS service sends
MaxFrames == 2
\* frames the identity service sends
MaxIdFrames == 3
\* lookups made in a run of the request-id counter
MaxAllocs == 6

-----------------------------------------------------------------------------
(* Message types and limits of the ll bindings.                            *)

GNUNET_MESSAGE_TYPE_GNS_LOOKUP == 500
GNUNET_MESSAGE_TYPE_GNS_LOOKUP_RESULT == 501
GNUNET_DNSPARSER_MAX_NAME_LENGTH == 253
GNUNET_MESSAGE_TYPE_PEERINFO_GET_ALL == 331
GNUNET_MESSAGE_TYPE_PEERINFO_INFO == 332
GNUNET_MESSAGE_TYPE_PEERINFO_INFO_END == 333
GNUNET_MESSAGE_TYPE_IDENTITY_START == 624
GNUNET_MESSAGE_TYPE_IDENTITY_RESULT_CODE == 625
GNUNET_MESSAGE_TYPE_IDENTITY_UPDATE == 626
GNUNET_MESSAGE_TYPE_IDENTITY_GET_DEFAULT == 627
GNUNET_MESSAGE_TYPE_IDENTITY_SET_DEFAULT == 628
GNUNET_MESSAGE_TYPE_TRANSPORT_START == 360

-----------------------------------------------------------------------------
(* Big-endian integers and cursors.  A cursor is the sequence of bytes     *)
(* that have not been read yet.                                            *)

Take(s, n) == SubSeq(s, 1, n)
Drop(s, n) == SubSeq(s, n + 1, Len(s))
Zeros(n) == [i \in 1..n |-> 0]

\* write_u16 with the low byte first
U16LE(n) == << n % 256, (n \div 256) % 256 >>
\* write_u16::<BigEndian>
U16BE(n) == << (n \div 256) % 256, n % 256 >>
U32BE(n) == << (n \div 16777216) % 256, (n \div 65536) % 256,
               (n \div 256) % 256, n % 256 >>
U64BE(n) == Zeros(4) \o U32BE(n)

RECURSIVE FromBE(_)
FromBE(s) == IF s = <<>> THEN 0
             ELSE FromBE(Take(s, Len(s) - 1)) * 256 + s[Len(s)]

\* reader.read_u16/read_u32/read_u64 on a cursor: w bytes, big-endian; fails
\* when the cursor is too short
ReadUInt(s, w) ==
    IF Len(s) < w THEN [ok |-> FALSE, val |-> 0, rest |-> <<>>]
    ELSE [ok |-> TRUE, val |-> FromBE(Take(s, w)), rest |-> Drop(s, w)]

\* ReadUtil::read_exact_alloc on a cursor: a read that returns 0 bytes is an
\* UnexpectedEOF error, also when 0 bytes were asked for
read_exact_alloc(s, len) ==
    IF len = 0 \/ Len(s) < len THEN [ok |-> FALSE, val |-> <<>>, rest |-> <<>>]
    ELSE [ok |-> TRUE, val |-> Take(s, len), rest |-> Drop(s, len)]

-----------------------------------------------------------------------------
(* Frame codec (src/service/mod.rs).                                       *)

\* write_message(len, tpe) followed by the payload writes: the buffer handed
\* to send
write_message(len, tpe, payload) == U16BE(len) \o U16BE(tpe) \o payload

\* the kind of the io::Error a read meets when the stream has no byte left:
\* end-of-input ("eof") or a failure of the connection ("reset")
read_fail(end) == IF end = "eof" THEN "UnexpectedEof" ELSE "ConnectionReset"

\* byteorder_error_chain!: From<io::Error> maps every error to Io
ReadMessageError_from_io(kind) == "Io"
\* byteorder_error_chain!: From<io::Error> for ReadMessageError
ReadMessageError_from(kind) ==
    IF kind = "UnexpectedEof" THEN "Disconnected" ELSE "Io"

\* the length check with 2 as the least length
ShortLenBelow2(len) == len < 2
\* if len < 4 { return Err(ShortMessage) }
ShortLen(len) == len < 4

\* ServiceReader::read_message on the unread bytes s of a stream whose read
\* direction is "open" (a read that finds no byte blocks), at "eof" or "reset"
read_message_on(s, end) ==
    LET fail == IF end = "open" THEN [res |-> "Blocked", used |-> 0]
                ELSE [res |-> ReadMessageError_from(read_fail(end)), used |-> Len(s)]
    IN
    IF Len(s) < 2 THEN fail
    ELSE LET len == FromBE(Take(s, 2)) IN
         IF ShortLen(len) THEN [res |-> "ShortMessage", len |-> len, used |-> 2]
         ELSE LET v == read_exact_alloc(Drop(s, 2), len - 2) IN
              IF ~v.ok THEN fail
              ELSE LET tpe == ReadUInt(v.val, 2) IN
                   IF ~tpe.ok
                   THEN [res |-> ReadMessageError_from("UnexpectedEof"), used |-> len]
                   ELSE [res |-> "Ok", tpe |-> tpe.val, mr |-> tpe.rest, used |-> len]

\* Read::read of the connection into a buffer with room for n bytes, s being
\* the bytes received and not yet read: it takes what is there, up to n
\* bytes; with no byte there it blocks while the read direction is open,
\* returns 0 bytes at end-of-input and an error when the connection failed
connection_read(s, end, n) ==
    IF s # <<>> THEN [res |-> "Ok", got |-> Take(s, IF Len(s) < n THEN Len(s) ELSE n)]
    ELSE IF end = "open" THEN [res |-> "Blocked", got |-> <<>>]
    ELSE IF end = "eof" THEN [res |-> "Ok", got |-> <<>>]
    ELSE [res |-> "Err", got |-> <<>>]

\* ServiceReader::read_message, waiting in phase rd.pc ("len": read_u16,
\* "body": read_exact_alloc) with rd.buf of rd.need bytes read, after its read
\* of the connection returned r: an error or 0 bytes end the call, fewer
\* bytes than needed make the loop read again, the two length bytes are
\* checked and followed by the read of the len - 2 bytes of the body, and of
\* a complete body the first two bytes are the type
read_message_step(rd, r) ==
    LET buf == rd.buf \o r.got
        used == (IF rd.pc = "body" THEN 2 ELSE 0) + Len(buf)
    IN
    IF r.res = "Err"
    THEN [pc |-> "ret", ret |-> [res |-> ReadMessageError_from(read_fail("reset")),
                                 used |-> used]]
    ELSE IF r.got = <<>>
    THEN [pc |-> "ret", ret |-> [res |-> ReadMessageError_from(read_fail("eof")),
                                 used |-> used]]
    ELSE IF Len(buf) < rd.need
    THEN [pc |-> rd.pc, buf |-> buf, need |-> rd.need]
    ELSE IF rd.pc = "len"
    THEN LET len == FromBE(buf) IN
         IF ShortLen(len)
         THEN [pc |-> "ret", ret |-> [res |-> "ShortMessage", len |-> len, used |-> used]]
         ELSE [pc |-> "body", buf |-> <<>>, need |-> len - 2]
    ELSE LET tpe == ReadUInt(buf, 2) IN
         IF ~tpe.ok
         THEN [pc |-> "ret", ret |-> [res |-> ReadMessageError_from("UnexpectedEof"),
                                      used |-> used]]
         ELSE [pc |-> "ret", ret |-> [res |-> "Ok", tpe |-> tpe.val, mr |-> tpe.rest,
                                      used |-> used]]

\* the read direction after a read_message that returned res: the failure
\* of the connection is reported to one read, the reads after it find
\* end-of-input
read_end_after(end, res) == IF end = "reset" /\ res = "Io" THEN "eof" ELSE end

\* ServiceReader::read_message on the unread bytes s of a stream; eof tells
\* whether a read that finds no byte returns 0 instead of blocking
read_message(s, eof) == read_message_on(s, IF eof THEN "eof" ELSE "open")

\* ServiceWriter::write_message: assert!(len >= 4), a Vec of capacity len
\* holding the length and the type
MessageWriter_new(len, tpe) ==
    IF len < 4 THEN [st |-> "panic", len |-> len, tpe |-> tpe, v |-> <<>>, cap |-> 0]
    ELSE [st |-> "open", len |-> len, tpe |-> tpe, v |-> U16BE(len) \o U16BE(tpe),
          cap |-> len]

\* the capacity of a Vec of capacity cap after it is made to hold need bytes:
\* unchanged when they fit; otherwise at least need, how much more depends
\* on the allocation policy of the build
Vec_reserve(policy, cap, need) ==
    IF need <= cap THEN cap
    ELSE IF policy = "exact" THEN need
    ELSE LET d == IF 2 * cap > need THEN 2 * cap ELSE need IN
         IF d < 8 THEN 8 ELSE d

\* <MessageWriter as Write>::write: the bytes go to the end of the buffer
MessageWriter_write(policy, w, buf) ==
    [w EXCEPT !.v = w.v \o buf,
              !.cap = Vec_reserve(policy, w.cap, Len(w.v) + Len(buf))]

\* <MessageWriter as Write>::write puts the bytes on the connection as well
Write_through(buf) == buf
\* the bytes <MessageWriter as Write>::write puts on the connection: none
Write_connection(buf) == <<>>

\* MessageWriter::send: assert!(v.len() == v.capacity())
send_assert(w) == Len(w.v) = w.cap

\* service::connect opens a second connection for the writer
service_connect_two(cfg, connectOk, cloneOk) ==
    IF cfg # "Path" THEN [res |-> "NotConfigured", reader |-> 0, writer |-> 0]
    ELSE IF ~connectOk \/ ~cloneOk THEN [res |-> "Io", reader |-> 0, writer |-> 0]
    ELSE [res |-> "Ok", reader |-> 1, writer |-> 2]
\* service::connect: cfg is what get_filename finds ("Path" or an error),
\* connectOk and cloneOk tell whether UnixStream::connect and try_clone
\* succeed; reader and writer name the socket their stream refers to
service_connect(cfg, connectOk, cloneOk) ==
    IF cfg # "Path" THEN [res |-> "NotConfigured", reader |-> 0, writer |-> 0]
    ELSE IF ~connectOk \/ ~cloneOk THEN [res |-> "Io", reader |-> 0, writer |-> 0]
    ELSE [res |-> "Ok", reader |-> 1, writer |-> 1]

-----------------------------------------------------------------------------
(* GNS records and requests (src/gns/record.rs, src/gns/mod.rs).           *)

\* Record::deserialize on a cursor
Record_deserialize(s) ==
    LET expiration_time == ReadUInt(s, 8)
        data_size == ReadUInt(expiration_time.rest, 4)
        record_type == ReadUInt(data_size.rest, 4)
        flags == ReadUInt(record_type.rest, 4)
        buff == read_exact_alloc(flags.rest, data_size.val)
    IN  IF expiration_time.ok /\ data_size.ok /\ record_type.ok /\ flags.ok /\ buff.ok
        THEN [ok |-> TRUE, rest |-> buff.rest,
              val |-> [expiration_time |-> expiration_time.val,
                       data_size |-> data_size.val,
                       record_type |-> record_type.val,
                       flags |-> flags.val, buff |-> buff.val]]
        ELSE [ok |-> FALSE, rest |-> <<>>, val |-> <<>>]

\* the request frame GNS::lookup builds: no shorten zone, a zero zone key,
\* record type A, LocalOptions::Default
LookupRequest(id, name) ==
    write_message(80 + Len(name) + 1, GNUNET_MESSAGE_TYPE_GNS_LOOKUP,
                  U32BE(id) \o Zeros(32) \o U16BE(0) \o U16BE(0) \o U32BE(1)
                  \o Zeros(32) \o name \o <<0>>)

\* the order of the two effects that end GNS::lookup
LookupOrderSwapped == <<"send", "register">>
LookupOrder == <<"register", "send">>

\* handles.insert(id, sender); InsertAlone is the insert into a map that
\* drops what it held
InsertAlone(hs, id, h) == [x \in {id} |-> h]
Insert(hs, id, h) == [x \in DOMAIN hs \cup {id} |-> IF x = id THEN h ELSE hs[x]]

\* the try_recv loop that opens the handler: every queued registration is
\* inserted, in the order it was pushed; DrainNothing is the handler that
\* does not look at the registration channel
RECURSIVE Drain(_, _)
DrainNothing(q, hs) == hs
Drain(q, hs) == IF q = <<>> THEN hs
                ELSE Drain(Tail(q), Insert(hs, Head(q)[1], Head(q)[2]))

\* handles.get(&id): the sender (a channel index) or 0 for None
HandlesGetAny(hs, id) ==
    IF DOMAIN hs = {} THEN 0
    ELSE hs[CHOOSE x \in DOMAIN hs : \A y \in DOMAIN hs : y <= x]
HandlesGet(hs, id) == IF id \in DOMAIN hs THEN hs[id] ELSE 0

\* for _ in 0..rd_count: deserialize a record and send it; recs are the
\* records sent before the loop ended, ok tells whether it ran to the end
RECURSIVE RecLoopReversed(_, _)
RecLoopReversed(s, n) ==
    IF n = 0 THEN [recs |-> <<>>, ok |-> TRUE]
    ELSE LET r == Record_deserialize(s) IN
         IF ~r.ok THEN [recs |-> <<>>, ok |-> FALSE]
         ELSE LET t == RecLoopReversed(r.rest, n - 1) IN
              [recs |-> t.recs \o <<r.val>>, ok |-> t.ok]
RECURSIVE RecLoop(_, _)
RecLoop(s, n) ==
    IF n = 0 THEN [recs |-> <<>>, ok |-> TRUE]
    ELSE LET r == Record_deserialize(s) IN
         IF ~r.ok THEN [recs |-> <<>>, ok |-> FALSE]
         ELSE LET t == RecLoop(r.rest, n - 1) IN
              [recs |-> <<r.val>> \o t.recs, ok |-> t.ok]

\* the match of the handler on the message type: the LOOKUP_RESULT arm
IsLookupResult(tpe) == tpe = GNUNET_MESSAGE_TYPE_GNS_LOOKUP_RESULT

\* what the handler returns for a frame of any other type;
\* UnknownTypeContinue is the handler that skips such a frame
UnknownTypeContinue == "Continue"
UnknownType == "Reconnect"

\* the records the loop over rd_count has sent when it ends: each record is
\* sent as soon as it is decoded, so those decoded before a failure are
\* sent; SentAllOrNothing is the handler that sends after the loop only
SentAllOrNothing(d) == IF d.ok THEN d.recs ELSE <<>>
Sent(d) == d.recs

\* lookup_rx.try_recv() on the emptied channel: Disconnected when lookup_tx
\* is gone, Empty otherwise; DisconnectedNever is the drain that takes
\* Disconnected for Empty
DisconnectedNever(txAlive) == FALSE
Disconnected(txAlive) == ~txAlive

\* what the handler does when handles.get finds no sender
NoSenderReconnect == "Reconnect"
NoSender == "Continue"

\* the closure GNS::connect passes to spawn_callback_loop, applied to a frame
\* (tpe, mr) with q queued in lookup_rx, txAlive telling whether lookup_tx
\* still exists, and hs the handles map.  to is the channel the records recs
\* are sent on (0: none), miss tells that the id was looked up and not found.
\* HandlerAdopts is a handler that registers a sender of its own under the
\* type of the frame.
HandlerAdopts(tpe, mr, q, txAlive, hs) ==
    [result |-> "Continue", handles |-> Insert(Drain(q, hs), tpe, 1),
     to |-> 0, recs |-> <<>>, miss |-> FALSE]
Handler(tpe, mr, q, txAlive, hs) ==
    LET hs1 == Drain(q, hs)
        none == [handles |-> hs1, to |-> 0, recs |-> <<>>, miss |-> FALSE]
    IN  IF Disconnected(txAlive) THEN [result |-> "Shutdown"] @@ none
        ELSE IF ~IsLookupResult(tpe)
        THEN [result |-> UnknownType] @@ none
        ELSE LET id == ReadUInt(mr, 4) IN
             IF ~id.ok THEN [result |-> "Reconnect"] @@ none
             ELSE LET sender == HandlesGet(hs1, id.val) IN
                  IF sender = 0
                  THEN [result |-> NoSender, miss |-> TRUE] @@ none
                  ELSE LET rd_count == ReadUInt(id.rest, 4) IN
                       IF ~rd_count.ok THEN [result |-> "Reconnect"] @@ none
                       ELSE LET d == RecLoop(rd_count.rest, rd_count.val) IN
                            [result |-> IF d.ok THEN "Continue" ELSE "Reconnect",
                             to |-> sender, recs |-> Sent(d)] @@ none

\* sender.send(rec) for every record of recs, on channel c: a send fails,
\* and the record is discarded, when the Receiver has been dropped
SendAllTwice(c, recs) == IF c.rx THEN [c EXCEPT !.queue = @ \o recs \o recs] ELSE c
SendAll(c, recs) == IF c.rx THEN [c EXCEPT !.queue = @ \o recs] ELSE c

\* let _ = sender.send(rec): what the handler returns after its sends, the
\* last of which succeeded (sendOk) or found the Receiver dropped; the
\* result of send is discarded.  SendResultChecked is the handler that
\* gives up on a failed send
SendResultChecked(result, sendOk) == IF sendOk THEN result ELSE "Reconnect"
SendResult(result, sendOk) == result

\* spawn_callback_loop: where the loop goes after the handler returned
AfterCallbackRetry(result) == IF result = "Shutdown" THEN "exited" ELSE "read"
AfterCallback(result) == IF result = "Continue" THEN "read" ELSE "exited"

\* Receiver::recv().unwrap() in LookupHandle::recv: a queued record is
\* returned also after every sender is gone
RecvOutcomeEager(queue, senderAlive) ==
    IF ~senderAlive THEN "panic"
    ELSE IF queue # <<>> THEN "Record" ELSE "Blocked"
RecvOutcome(queue, senderAlive) ==
    IF queue # <<>> THEN "Record"
    ELSE IF ~senderAlive THEN "panic" ELSE "Blocked"

\* impl Drop for ServiceReadLoop: the value of readShut after the drop
ServiceReadLoop_drop_noop(shut) == shut
ServiceReadLoop_drop(shut) == TRUE

-----------------------------------------------------------------------------
(* State of the GNS part after GNS::connect has returned.                  *)

EmptyMap == [x \in {} |-> 0]
IdleFg == [pc |-> "idle", step |-> 0, id |-> 0, h |-> 0, mw |-> <<>>]
NoMeta == [kind |-> "none", id |-> 0, sol |-> FALSE, no |-> 0, n |-> 0, rd_count |-> 0]
\* no frame is in the hands of the loop thread.  Of a frame in hand, to is
\* the channel of the sender the handler found (0: none), left the records
\* it has decoded and not yet sent, result what it returns after them
NoFrame == [tpe |-> 0, mr |-> <<>>, meta |-> NoMeta,
            to |-> 0, left |-> <<>>, result |-> "none"]

GnsInit ==
    /\ gnsAlive = TRUE
    /\ lookup_id = 0
    /\ lookup_q = <<>>
    /\ chan = <<>>
    /\ lastRecv = <<>>
    /\ fg = IdleFg
    /\ ret = "none"
    /\ loopPc = "read"
    /\ cur = NoFrame
    /\ handles = EmptyMap
    /\ out = <<>>
    /\ wire = <<>>
    /\ svcClosed = FALSE
    /\ readShut = FALSE
    /\ pending = <<>>
    /\ nsent = 0
    /\ missNo = 0
    /\ exitBy = "none"

IdInit ==
    /\ idPc = "start"
    /\ egos = EmptyMap
    /\ idName = <<>>
    /\ idWire = <<>>
    /\ idClosed = FALSE
    /\ idOut = <<>>
    /\ idRead = 0
    /\ idSent = 0
    /\ idLog = <<>>
    /\ idRet = [res |-> "none", ego |-> <<>>]

\* the request-id counter at rest
AllocIdle ==
    /\ aLookupId = <<0, 0>> /\ aBase = <<0, 0>> /\ aBuild = "debug"
    /\ aQueue = <<>> /\ aMap = {} /\ aCount = 0 /\ aPrev = <<>> /\ aRet = "none"

\* no peerinfo iteration is made
PeersIdle ==
    /\ pPc = "off" /\ pWire = <<>> /\ pClosed = FALSE /\ pOut = <<>>
    /\ pLog = <<>> /\ pRead = 0 /\ pItems = <<>>

NoWriter == [st |-> "none", len |-> 0, tpe |-> 0, v |-> <<>>, cap |-> 0, n |-> 0]
NotConnected == [res |-> "none", reader |-> 0, writer |-> 0]
\* no read_message call is in progress
NoRead == [pc |-> "idle", buf |-> <<>>, need |-> 0, blocked |-> FALSE]

\* no connection is used through the codec
SvcIdle ==
    /\ sPc = "off" /\ sRet = NotConnected /\ sGrow = "amortized" /\ sPeer = "raw"
    /\ msgWriter = NoWriter /\ sOut = <<>> /\ sFrames = <<>> /\ sIn = <<>>
    /\ sEcho = <<>> /\ sEnd = "open" /\ sRawN = 0 /\ sMsgs = <<>> /\ sRd = NoRead

\* no utility function is under study
FnIdle == fnName = "none" /\ fnIn = <<>> /\ fnOut = <<>>

AuxIdle == AllocIdle /\ PeersIdle /\ SvcIdle /\ FnIdle

Init == GnsInit /\ IdInit /\ AuxIdle

\* the Sender<Record> of channel h exists: in the caller's hands inside
\* lookup, queued in lookup_rx, or stored in the handles map
SenderAlive(h) ==
    \/ fg.pc = "lookup" /\ fg.h = h
    \/ \E i \in DOMAIN lookup_q : lookup_q[i][2] = h
    \/ \E id \in DOMAIN handles : handles[id] = h

\* the names the caller looks up: a short one and one that is too long
ShortName == <<97>>
LongName == [i \in 1..(GNUNET_DNSPARSER_MAX_NAME_LENGTH + 1) |-> 97]
Names == {ShortName, LongName}

-----------------------------------------------------------------------------
(* Foreground caller.                                                      *)

\* whether lookup_tx.send((id, tx)) fails (lookup_rx was dropped with the
\* handler closure) and whether mw.send() fails (the peer closed the socket)
StepFails(op) == IF op = "register" THEN loopPc = "exited" ELSE svcClosed

\* the caller after a failed step: the unwrap of a failed registration
\* panics, try! of a failed write returns Err(LookupError::Io)
FgAfterFailure(op) ==
    [IdleFg EXCEPT !.pc = IF op = "register" THEN "panicked" ELSE "idle"]
RetAfterFailure(op) == IF op = "register" THEN "panic" ELSE "Io"

\* the length check that opens GNS::lookup; TooLongNever is a lookup
\* without it
TooLongNever(name) == FALSE
TooLong(name) == Len(name) > GNUNET_DNSPARSER_MAX_NAME_LENGTH

\* GNS::lookup from its start to the first of the two effects that end it:
\* the length check, the id, the request buffer, the channel, and then
\* LookupOrder[1]
LookupStart(name) ==
    /\ gnsAlive /\ fg.pc = "idle" /\ lookup_id < MaxLookups
    /\ IF TooLong(name)
       THEN /\ ret' = "NameTooLong"
            /\ UNCHANGED <<lookup_id, chan, lastRecv, fg, lookup_q, out>>
       ELSE LET id == lookup_id
                h == Len(chan) + 1
                mw == LookupRequest(id, name)
                op == LookupOrder[1]
                failed == StepFails(op)
            IN  /\ lookup_id' = lookup_id + 1
                /\ chan' = Append(chan, [id |-> id, queue |-> <<>>, rx |-> ~failed])
                /\ lastRecv' = Append(lastRecv, <<>>)
                /\ lookup_q' = IF op = "register" /\ ~failed
                               THEN Append(lookup_q, <<id, h>>) ELSE lookup_q
                /\ out' = IF op = "send" /\ ~failed THEN out \o mw ELSE out
                /\ fg' = IF failed THEN FgAfterFailure(op)
                         ELSE [pc |-> "lookup", step |-> 2, id |-> id, h |-> h, mw |-> mw]
                /\ ret' = IF failed THEN RetAfterFailure(op) ELSE ret
    /\ UNCHANGED <<gnsAlive, loopPc, cur, handles, wire, svcClosed, readShut, pending,
                   nsent, missNo, exitBy, idVars, auxVars>>

\* the end of GNS::lookup: LookupOrder[2], then Ok(LookupHandle)
LookupFinish ==
    /\ fg.pc = "lookup"
    /\ LET op == LookupOrder[fg.step]
           failed == StepFails(op)
       IN  /\ lookup_q' = IF op = "register" /\ ~failed
                          THEN Append(lookup_q, <<fg.id, fg.h>>) ELSE lookup_q
           /\ out' = IF op = "send" /\ ~failed THEN out \o fg.mw ELSE out
           /\ fg' = IF failed THEN FgAfterFailure(op) ELSE IdleFg
           /\ ret' = IF failed THEN RetAfterFailure(op) ELSE "Handle"
           /\ chan' = IF failed THEN [chan EXCEPT ![fg.h].rx = FALSE] ELSE chan
    /\ UNCHANGED <<gnsAlive, lookup_id, lastRecv, loopPc, cur, handles, wire,
                   svcClosed, readShut, pending, nsent, missNo, exitBy, idVars, auxVars>>

\* LookupHandle::recv on the handle of the latest lookup (a handle borrows
\* the GNS value, so no older handle can be used once lookup was called again)
Recv ==
    /\ gnsAlive /\ fg.pc = "idle" /\ chan # <<>>
    /\ LET h == Len(chan)
           outcome == RecvOutcome(chan[h].queue, SenderAlive(h))
       IN  /\ chan[h].rx
           /\ outcome # "Blocked"
           /\ IF outcome = "Record"
              THEN /\ lastRecv' = [lastRecv EXCEPT ![h] = <<Head(chan[h].queue)>>]
                   /\ chan' = [chan EXCEPT ![h].queue = Tail(@)]
                   /\ ret' = ret
                   /\ fg' = fg
              ELSE /\ lastRecv' = lastRecv
                   /\ chan' = [chan EXCEPT ![h].rx = FALSE]
                   /\ ret' = "recv panic"
                   /\ fg' = [IdleFg EXCEPT !.pc = "panicked"]
    /\ UNCHANGED <<gnsAlive, lookup_id, lookup_q, loopPc, cur, handles,
                   out, wire, svcClosed, readShut, pending, nsent, missNo, exitBy, idVars, auxVars>>

\* a LookupHandle goes out of scope: its Receiver is dropped
DropHandle(h) ==
    /\ chan[h].rx /\ ~(fg.pc = "lookup" /\ fg.h = h)
    /\ chan' = [chan EXCEPT ![h].rx = FALSE]
    /\ UNCHANGED <<gnsAlive, lookup_id, lookup_q, lastRecv, fg, ret, loopPc, cur,
                   handles, out, wire, svcClosed, readShut, pending, nsent, missNo, exitBy,
                   idVars, auxVars>>

\* the GNS value is dropped.  Its fields are dropped in the order of their
\* declaration: the ServiceReadLoop, which shuts the read direction down,
\* before lookup_tx, whose drop disconnects the registration channel; the
\* loop thread can run between the two.  DropGNS is the first of them; the
\* caller, who may be unwinding from a panic, is then in the drop.
DropGNS ==
    /\ gnsAlive /\ fg.pc \in {"idle", "panicked"}
    /\ readShut' = ServiceReadLoop_drop(readShut)
    /\ fg' = [fg EXCEPT !.pc = "drop", !.step = IF fg.pc = "panicked" THEN 1 ELSE 0]
    /\ UNCHANGED <<gnsAlive, lookup_id, lookup_q, chan, lastRecv, ret, loopPc, cur,
                   handles, out, wire, svcClosed, pending, nsent, missNo, exitBy,
                   idVars, auxVars>>

\* the drop of lookup_tx, the last field of the GNS value
DropLookupTx ==
    /\ fg.pc = "drop"
    /\ gnsAlive' = FALSE
    /\ fg' = [IdleFg EXCEPT !.pc = IF fg.step = 1 THEN "panicked" ELSE "idle"]
    /\ UNCHANGED <<lookup_id, lookup_q, chan, lastRecv, ret, loopPc, cur, handles,
                   out, wire, svcClosed, readShut, pending, nsent, missNo, exitBy,
                   idVars, auxVars>>

-----------------------------------------------------------------------------
(* The GNS service.                                                        *)

\* the ids of the requests the service has received
RECURSIVE ReqIds(_)
ReqIds(s) == IF Len(s) < 8 THEN {}
             ELSE {FromBE(SubSeq(s, 5, 8))} \cup ReqIds(Drop(s, FromBE(Take(s, 2))))

\* the record the service puts at place i of frame number no, a reply to id:
\* expiration 0, type A, flags 0 and three bytes of data that tell the
\* records of a run apart
RecordValue(id, no, i) ==
    [expiration_time |-> 0, data_size |-> 3, record_type |-> 1, flags |-> 0,
     buff |-> <<id, no, i>>]

RecordBytes(r) ==
    U64BE(r.expiration_time) \o U32BE(r.data_size) \o U32BE(r.record_type)
    \o U32BE(r.flags) \o r.buff

RECURSIVE RecordsBytes(_)
RecordsBytes(recs) == IF recs = <<>> THEN <<>>
                      ELSE RecordBytes(Head(recs)) \o RecordsBytes(Tail(recs))

\* the records of a frame the service described by meta
MetaRecords(meta) == [i \in 1..meta.n |-> RecordValue(meta.id, meta.no, i)]

\* the bytes of the frame the service described by meta
FrameBytes(meta) ==
    IF meta.kind = "reply"
    THEN write_message(12 + 23 * meta.n, GNUNET_MESSAGE_TYPE_GNS_LOOKUP_RESULT,
                       U32BE(meta.id) \o U32BE(meta.rd_count)
                       \o RecordsBytes(MetaRecords(meta)))
    ELSE IF meta.kind = "other"
    THEN write_message(4, GNUNET_MESSAGE_TYPE_GNS_LOOKUP, <<>>)
    ELSE U16BE(3)

\* the replies the service chooses from, as <<id, records present, rd_count>>:
\* two records for any id, requested or not, and a payload that ends after
\* the first of two announced records
Replies == {<<id, 2, 2>> : id \in 0..MaxLookups} \cup {<<0, 1, 2>>}

\* the service sends a frame: a LOOKUP_RESULT, a frame of a type the GNS
\* handler does not know, or a header that announces 3 bytes.  What it sends
\* after the loop thread has ended is read by nobody and is left out.
SvcSend(kind, id, n, rd_count) ==
    /\ ~svcClosed /\ ~readShut /\ nsent < MaxFrames /\ loopPc # "exited"
    /\ LET meta == [kind |-> kind, id |-> id, sol |-> id \in ReqIds(out),
                    no |-> nsent + 1, n |-> n, rd_count |-> rd_count]
       IN  /\ wire' = wire \o FrameBytes(meta)
           /\ pending' = Append(pending, meta)
    /\ nsent' = nsent + 1
    /\ UNCHANGED <<gnsAlive, lookup_id, lookup_q, chan, lastRecv, fg, ret, loopPc, cur,
                   handles, out, svcClosed, readShut, missNo, exitBy, idVars, auxVars>>

\* the service closes the connection
SvcClose ==
    /\ ~svcClosed /\ loopPc # "exited"
    /\ svcClosed' = TRUE
    /\ UNCHANGED <<gnsAlive, lookup_id, lookup_q, chan, lastRecv, fg, ret, loopPc, cur,
                   handles, out, wire, readShut, pending, nsent, missNo, exitBy, idVars, auxVars>>

-----------------------------------------------------------------------------
(* The dispatch-loop thread (ServiceReader::spawn_callback_loop).          *)

\* self.read_message(): blocks until a frame, or the end of the stream, is
\* there.  On an error the thread is about to return.
LoopRead ==
    /\ loopPc = "read"
    /\ LET r == read_message(wire, svcClosed \/ readShut) IN
       /\ r.res # "Blocked"
       /\ wire' = Drop(wire, r.used)
       /\ IF r.res = "Ok"
          THEN /\ loopPc' = "callback"
               /\ cur' = [NoFrame EXCEPT
                              !.tpe = r.tpe, !.mr = r.mr,
                              !.meta = IF pending = <<>> THEN NoMeta ELSE Head(pending)]
          ELSE /\ loopPc' = "return"
               /\ cur' = [NoFrame EXCEPT !.result = "ReadError"]
       /\ pending' = IF pending = <<>> THEN pending ELSE Tail(pending)
    /\ UNCHANGED <<gnsAlive, lookup_id, lookup_q, chan, lastRecv, fg, ret, out,
                   handles, svcClosed, readShut, nsent, missNo, exitBy, idVars,
                   auxVars>>

\* cb(tpe, mr): the handler from its start up to its first sender.send, or
\* up to its return statement when it sends nothing.  Its last try_recv
\* finds the registration channel empty (or disconnected); what it does from
\* there on touches only the frame and the map, which are its own.
LoopCallback ==
    /\ loopPc = "callback"
    /\ LET h == Handler(cur.tpe, cur.mr, lookup_q, gnsAlive, handles) IN
       /\ IF h.to = 0 \/ h.recs = <<>>
          THEN /\ loopPc' = "return"
               /\ cur' = [cur EXCEPT !.result = h.result]
          ELSE /\ loopPc' = "send"
               /\ cur' = [cur EXCEPT !.to = h.to, !.left = h.recs,
                                     !.result = h.result]
       /\ handles' = h.handles
       /\ lookup_q' = <<>>
       /\ missNo' = IF h.miss THEN cur.meta.no ELSE missNo
    /\ UNCHANGED <<gnsAlive, lookup_id, chan, lastRecv, fg, ret, out, wire, svcClosed,
                   readShut, pending, nsent, exitBy, idVars, auxVars>>

\* one sender.send(rec) of the handler; after the last one the handler is
\* about to return
HandlerSend ==
    /\ loopPc = "send"
    /\ chan' = [chan EXCEPT ![cur.to] = SendAll(@, <<Head(cur.left)>>)]
    /\ IF Tail(cur.left) # <<>>
       THEN /\ cur' = [cur EXCEPT !.left = Tail(@)]
            /\ loopPc' = loopPc
       ELSE /\ cur' = [cur EXCEPT !.left = <<>>,
                                  !.result = SendResult(@, chan[cur.to].rx)]
            /\ loopPc' = "return"
    /\ UNCHANGED <<gnsAlive, lookup_id, lookup_q, lastRecv, fg, ret, out, handles,
                   wire, svcClosed, readShut, pending, nsent, missNo, exitBy,
                   idVars, auxVars>>

\* what ended the loop, for a thread that returns with cur in its hands
ExitCause ==
    IF cur.result = "ReadError" THEN "read"
    ELSE IF cur.result = "Shutdown" THEN "shutdown"
    ELSE IF IsLookupResult(cur.tpe) THEN "reply"
    ELSE "other"

\* the return of the handler and the match of the loop on its result, or
\* the return of the loop after a failed read: the loop reads on after
\* Continue; after anything else the thread returns, which drops the closure
\* and with it lookup_rx and the handles map.  Until this step the
\* registration channel takes registrations and the senders of the map
\* exist.
LoopReturn ==
    /\ loopPc = "return"
    /\ LET to == IF cur.result = "ReadError" THEN "exited"
                 ELSE AfterCallback(cur.result) IN
       /\ loopPc' = to
       /\ handles' = IF to = "exited" THEN EmptyMap ELSE handles
       /\ lookup_q' = IF to = "exited" THEN <<>> ELSE lookup_q
       /\ exitBy' = IF to = "exited" THEN ExitCause ELSE exitBy
    /\ cur' = NoFrame
    /\ UNCHANGED <<gnsAlive, lookup_id, chan, lastRecv, fg, ret, out, wire, svcClosed,
                   readShut, pending, nsent, missNo, idVars, auxVars>>

-----------------------------------------------------------------------------
(* Identity service client (src/identity/mod.rs, src/util/c_strings.rs).   *)

\* String::from_utf8 on the byte strings of this model, whose only byte
\* above 127 is 255, which no UTF-8 text holds
IsUtf8(v) == \A i \in DOMAIN v : v[i] < 128

\* ReadCString::read_c_string on a cursor
RECURSIVE read_c_string(_)
read_c_string(s) ==
    IF s = <<>> THEN [res |-> "Disconnected", val |-> <<>>]
    ELSE IF Head(s) = 0 THEN [res |-> "Ok", val |-> <<>>]
    ELSE LET t == read_c_string(Tail(s)) IN
         IF t.res # "Ok" THEN t
         ELSE IF ~IsUtf8(<<Head(s)>> \o t.val) THEN [res |-> "FromUtf8", val |-> <<>>]
         ELSE [res |-> "Ok", val |-> <<Head(s)>> \o t.val]

\* ReadCString::read_c_string_with_len on a cursor
read_c_string_with_len(s, len) ==
    IF \E i \in 1..len : i > Len(s) \/ s[i] = 0
    THEN LET i == CHOOSE i \in 1..len : (i > Len(s) \/ s[i] = 0)
                      /\ \A j \in 1..(i - 1) : j <= Len(s) /\ s[j] # 0
         IN  IF i > Len(s) THEN [res |-> "Disconnected", val |-> <<>>]
             ELSE [res |-> "InteriorNul", val |-> <<>>]
    ELSE IF Len(s) < len + 1 THEN [res |-> "Disconnected", val |-> <<>>]
    ELSE IF s[len + 1] # 0 THEN [res |-> "NoTerminator", val |-> <<>>]
    ELSE IF ~IsUtf8(Take(s, len)) THEN [res |-> "FromUtf8", val |-> <<>>]
    ELSE [res |-> "Ok", val |-> Take(s, len)]

\* EcdsaPrivateKey::deserialize: 32 bytes
EcdsaPrivateKey_deserialize(s) ==
    IF Len(s) < 32 THEN [ok |-> FALSE, val |-> <<>>, rest |-> <<>>]
    ELSE [ok |-> TRUE, val |-> Take(s, 32), rest |-> Drop(s, 32)]

\* pk.get_public().hash(): the id of the ego with private key pk.  The key
\* derivation and the hash are external; distinct keys have distinct ids.
EgoId(pk) == <<"hash", pk>>

\* the bytes up to the first NUL or the end of the cursor (connect's loop
\* over mr.bytes())
RECURSIVE UntilNul(_)
UntilNul(s) == IF s = <<>> \/ Head(s) = 0 THEN <<>>
               ELSE <<Head(s)>> \o UntilNul(Tail(s))

\* if eol != 0 { break; }
EndOfListNever(eol) == FALSE
EndOfList(eol) == eol # 0

\* the match of connect on the message type: the IDENTITY_UPDATE arm;
\* IsUpdateAlways takes every type for IDENTITY_UPDATE
IsUpdateAlways(tpe) == TRUE
IsUpdate(tpe) == tpe = GNUNET_MESSAGE_TYPE_IDENTITY_UPDATE

\* one iteration of the loop of IdentityService::connect on a frame
\* (tpe, mr): "insert" an ego, "break" at the end of the list, or an error
connect_frame(tpe, mr) ==
    LET none == [pk |-> <<>>, name |-> <<>>] IN
    IF ~IsUpdate(tpe)
    THEN [res |-> "UnexpectedMessageType", ty |-> tpe] @@ none
    ELSE LET name_len == ReadUInt(mr, 2)
             eol == ReadUInt(name_len.rest, 2)
         IN  IF ~name_len.ok \/ ~eol.ok THEN [res |-> "Disconnected"] @@ none
             ELSE IF EndOfList(eol.val) THEN [res |-> "break"] @@ none
             ELSE LET pk == EcdsaPrivateKey_deserialize(eol.rest) IN
                  IF ~pk.ok THEN [res |-> "Disconnected"] @@ none
                  ELSE LET v == UntilNul(pk.rest) IN
                       IF ~IsUtf8(v) THEN [res |-> "InvalidName"] @@ none
                       ELSE [res |-> "insert", pk |-> pk.val, name |-> v]

\* self.egos[&id].clone(): indexing a HashMap with a key it does not hold
\* panics
EgosIndex(es, id) ==
    IF id \in DOMAIN es THEN [res |-> "Ok", ego |-> <<id>>]
    ELSE [res |-> "panic", ego |-> <<>>]

\* match &s[..] == name: the name of the reply against the requested one;
\* NameMatchesAlways is a get_default_ego that takes any name
NameMatchesAlways(s, name) == TRUE
NameMatches(s, name) == s = name

\* get_default_ego without the RESULT_CODE arm of the match
get_default_ego_reply_no_result_arm(tpe, mr, name, es) ==
    [res |-> "InvalidResponse", ego |-> <<>>]

\* IdentityService::get_default_ego(name) from the reply frame (tpe, mr) on:
\* the match on the message type
get_default_ego_reply(tpe, mr, name, es) ==
    LET err(e) == [res |-> e, ego |-> <<>>] IN
    IF tpe = GNUNET_MESSAGE_TYPE_IDENTITY_RESULT_CODE
    THEN LET code == ReadUInt(mr, 4) IN
         IF ~code.ok THEN err("Disconnected")
         ELSE LET s == read_c_string(code.rest) IN
              IF s.res = "FromUtf8" THEN err("MalformedErrorResponse")
              ELSE IF s.res = "Disconnected" THEN err("Disconnected")
              ELSE [res |-> "ServiceResponse", ego |-> <<>>, response |-> s.val]
    ELSE IF tpe = GNUNET_MESSAGE_TYPE_IDENTITY_SET_DEFAULT
    THEN LET reply_name_len == ReadUInt(mr, 2) IN
         IF ~reply_name_len.ok THEN err("Disconnected")
         ELSE IF reply_name_len.val = 0 THEN err("InvalidResponse")
         ELSE LET zero == ReadUInt(reply_name_len.rest, 2) IN
              IF ~zero.ok THEN err("Disconnected")
              ELSE IF zero.val # 0 THEN err("InvalidResponse")
              ELSE LET pk == EcdsaPrivateKey_deserialize(zero.rest) IN
                   IF ~pk.ok THEN err("Disconnected")
                   ELSE LET s == read_c_string_with_len(pk.rest, reply_name_len.val - 1) IN
                        IF s.res # "Ok" THEN err("ReceiveName")
                        ELSE IF NameMatches(s.val, name) THEN EgosIndex(es, EgoId(pk.val))
                        ELSE err("InvalidResponse")
    ELSE err("InvalidResponse")

\* the request frame of get_default_ego
GetDefaultRequest(name) ==
    write_message(8 + Len(name) + 1, GNUNET_MESSAGE_TYPE_IDENTITY_GET_DEFAULT,
                  U16BE(Len(name) + 1) \o U16BE(0) \o name \o <<0>>)

\* IdentityService::connect: the START frame is written
IdConnect ==
    /\ idPc = "start"
    /\ IF idClosed
       THEN idPc' = "failed" /\ idRet' = [res |-> "Io", ego |-> <<>>] /\ idOut' = idOut
       ELSE /\ idPc' = "bootstrap"
            /\ idOut' = idOut \o write_message(4, GNUNET_MESSAGE_TYPE_IDENTITY_START, <<>>)
            /\ idRet' = idRet
    /\ UNCHANGED <<egos, idName, idWire, idClosed, idRead, idSent, idLog, gnsVars, auxVars>>

\* one iteration of the loop of IdentityService::connect
IdBootstrap ==
    /\ idPc = "bootstrap"
    /\ LET r == read_message(idWire, idClosed) IN
       /\ r.res # "Blocked"
       /\ idWire' = Drop(idWire, r.used)
       /\ IF r.res # "Ok"
          THEN /\ idPc' = "failed"
               /\ idRet' = [res |-> "ReadMessage", ego |-> <<>>]
               /\ UNCHANGED <<egos, idRead>>
          ELSE LET f == connect_frame(r.tpe, r.mr) IN
               /\ idRead' = idRead + 1
               /\ egos' = IF f.res = "insert"
                          THEN Insert(egos, EgoId(f.pk), [pk |-> f.pk, name |-> f.name])
                          ELSE egos
               /\ idPc' = IF f.res = "insert" THEN "bootstrap"
                          ELSE IF f.res = "break" THEN "ready" ELSE "failed"
               /\ idRet' = IF f.res = "insert" THEN idRet
                           ELSE IF f.res = "break" THEN [res |-> "Ok", ego |-> <<>>]
                           ELSE IF f.res = "UnexpectedMessageType"
                           THEN [res |-> f.res, ego |-> <<>>, ty |-> f.ty]
                           ELSE [res |-> f.res, ego |-> <<>>]
    /\ UNCHANGED <<idName, idClosed, idOut, idSent, idLog, gnsVars, auxVars>>

\* ToPrimitive::to_u16 of a usize: None when the number needs more than 16
\* bits
to_u16(n) == IF n <= 65535 THEN <<n>> ELSE <<>>

\* the names get_default_ego is called with: a short one and the shortest
\* one whose frame length 8 + name_len + 1 does not fit in a u16
IdShortName == <<97>>
IdLongName == [i \in 1..65527 |-> 97]

\* get_default_ego(name): NameTooLong when the frame length does not fit in
\* a u16, before anything is written; otherwise the GET_DEFAULT frame is
\* written.  idName is the name of the latest request written.
IdGetDefaultEgo(name) ==
    /\ idPc = "ready"
    /\ IF to_u16(8 + Len(name) + 1) = <<>>
       THEN /\ idRet' = [res |-> "NameTooLong", ego |-> <<>>]
            /\ UNCHANGED <<idPc, idOut, idName>>
       ELSE /\ idName' = name
            /\ IF idClosed
               THEN /\ idPc' = idPc /\ idOut' = idOut
                    /\ idRet' = [res |-> "Io", ego |-> <<>>]
               ELSE /\ idPc' = "called"
                    /\ idOut' = idOut \o GetDefaultRequest(name)
                    /\ idRet' = [res |-> "none", ego |-> <<>>]
    /\ UNCHANGED <<egos, idWire, idClosed, idRead, idSent, idLog, gnsVars, auxVars>>

\* get_default_ego: the reply is read and decoded
IdGetDefaultEgoReply ==
    /\ idPc = "called"
    /\ LET r == read_message(idWire, idClosed) IN
       /\ r.res # "Blocked"
       /\ idWire' = Drop(idWire, r.used)
       /\ idRead' = IF r.res = "Ok" THEN idRead + 1 ELSE idRead
       /\ idRet' = IF r.res # "Ok" THEN [res |-> "ReadMessage", ego |-> <<>>]
                   ELSE get_default_ego_reply(r.tpe, r.mr, idName, egos)
       /\ idPc' = IF idRet'.res = "panic" THEN "panicked" ELSE "ready"
    /\ UNCHANGED <<egos, idName, idClosed, idOut, idSent, idLog, gnsVars, auxVars>>

\* the frames the identity service chooses from
KeyBytes(k) == <<k>> \o Zeros(31)
UpdateFrame(k, name) ==
    write_message(4 + 4 + 32 + Len(name) + 1, GNUNET_MESSAGE_TYPE_IDENTITY_UPDATE,
                  U16BE(Len(name) + 1) \o U16BE(0) \o KeyBytes(k) \o name \o <<0>>)
EndOfListFrame ==
    write_message(8, GNUNET_MESSAGE_TYPE_IDENTITY_UPDATE, U16BE(0) \o U16BE(1))
SetDefaultFrame(name_len, flag, k, name) ==
    write_message(4 + 4 + 32 + Len(name), GNUNET_MESSAGE_TYPE_IDENTITY_SET_DEFAULT,
                  U16BE(name_len) \o U16BE(flag) \o KeyBytes(k) \o name)
ResultCodeFrame(msg) ==
    write_message(4 + 4 + Len(msg), GNUNET_MESSAGE_TYPE_IDENTITY_RESULT_CODE,
                  U32BE(1) \o msg)
IdFrames ==
    {UpdateFrame(1, <<97>>), UpdateFrame(2, <<97>>), UpdateFrame(1, <<98>>),
     EndOfListFrame,
     SetDefaultFrame(2, 0, 1, <<97, 0>>), SetDefaultFrame(2, 0, 2, <<97, 0>>),
     SetDefaultFrame(2, 0, 1, <<98, 0>>), SetDefaultFrame(0, 0, 1, <<97, 0>>),
     SetDefaultFrame(2, 1, 1, <<97, 0>>), SetDefaultFrame(2, 0, 1, <<97, 98>>),
     ResultCodeFrame(<<101, 0>>), ResultCodeFrame(<<255, 0>>),
     ResultCodeFrame(<<101>>),
     write_message(4, GNUNET_MESSAGE_TYPE_IDENTITY_START, <<>>)}

IdSvcSend(f) ==
    /\ idPc # "off" /\ ~idClosed /\ idSent < MaxIdFrames
    /\ idWire' = idWire \o f
    /\ idSent' = idSent + 1
    /\ idLog' = Append(idLog, f)
    /\ UNCHANGED <<idPc, egos, idName, idClosed, idOut, idRead, idRet, gnsVars, auxVars>>

IdSvcClose ==
    /\ idPc # "off" /\ ~idClosed
    /\ idClosed' = TRUE
    /\ UNCHANGED <<idPc, egos, idName, idWire, idOut, idRead, idSent, idLog, idRet, gnsVars,
                   auxVars>>

IdNext ==
    \/ IdConnect
    \/ IdBootstrap
    \/ \E name \in {IdShortName, IdLongName} : IdGetDefaultEgo(name)
    \/ IdGetDefaultEgoReply
    \/ \E f \in IdFrames : IdSvcSend(f)
    \/ IdSvcClose

SpecIdentity == Init /\ [][IdNext]_vars

-----------------------------------------------------------------------------
(* The request-id counter of GNS over a long life (src/gns/mod.rs).  A     *)
(* u32 is kept as <<high 16 bits, low 16 bits>>.                           *)

U16Mod == 65536
U32Max == <<U16Mod - 1, U16Mod - 1>>
U32Less(x, y) == x[1] < y[1] \/ (x[1] = y[1] /\ x[2] < y[2])

\* self.lookup_id += 1: with overflow checks (debug) the addition panics at
\* u32::MAX, without them (release) it wraps to 0
lookup_id_increment(x, build) ==
    IF x[2] < U16Mod - 1 THEN [panic |-> FALSE, val |-> <<x[1], x[2] + 1>>]
    ELSE IF x[1] < U16Mod - 1 THEN [panic |-> FALSE, val |-> <<x[1] + 1, 0>>]
    ELSE IF build = "debug" THEN [panic |-> TRUE, val |-> x]
    ELSE [panic |-> FALSE, val |-> <<0, 0>>]

\* values of lookup_id a run starts from: a fresh connection, one whose low
\* half is about to carry, and one that has made 2^32 - 2 lookups.  The
\* handles map is never pruned, so every id below the start is an entry of it.
AllocStarts == {<<0, 0>>, <<0, U16Mod - 2>>, <<U16Mod - 1, U16Mod - 2>>}

AllocInit ==
    /\ aBase \in AllocStarts /\ aLookupId = aBase
    /\ aBuild \in {"debug", "release"}
    /\ aQueue = <<>> /\ aMap = {} /\ aCount = 0 /\ aPrev = <<>> /\ aRet = "none"

\* id has an entry: in the handles map, or queued for it in lookup_rx
Registered(id) ==
    \/ U32Less(id, aBase)
    \/ id \in aMap
    \/ \E k \in DOMAIN aQueue : aQueue[k] = id

\* GNS::lookup: the id is taken, the counter incremented, the registration
\* pushed
AllocLookup ==
    /\ aRet # "panic" /\ aCount < MaxAllocs
    /\ LET id == aLookupId
           inc == lookup_id_increment(aLookupId, aBuild)
       IN  IF inc.panic
           THEN /\ aRet' = "panic"
                /\ UNCHANGED <<aLookupId, aQueue, aCount, aPrev>>
           ELSE /\ aLookupId' = inc.val
                /\ aQueue' = Append(aQueue, id)
                /\ aCount' = aCount + 1
                /\ aPrev' = id
                /\ aRet' = "Handle"
    /\ UNCHANGED <<aBase, aBuild, aMap, gnsVars, idVars, peerVars, svcVars, fnVars>>

\* the handler's registration drain
AllocDrain ==
    /\ aQueue # <<>>
    /\ aMap' = aMap \cup {aQueue[k] : k \in DOMAIN aQueue}
    /\ aQueue' = <<>>
    /\ UNCHANGED <<aLookupId, aBase, aBuild, aCount, aPrev, aRet, gnsVars, idVars,
                   peerVars, svcVars, fnVars>>

AllocNext == AllocLookup \/ AllocDrain

InitIds == GnsInit /\ IdInit /\ AllocInit /\ PeersIdle /\ SvcIdle /\ FnIdle
SpecIds == InitIds /\ [][AllocNext]_vars

-----------------------------------------------------------------------------
(* Peerinfo client (src/peerinfo/peerinfo.rs).                             *)

\* PeerIdentity::deserialize: std read_exact of the 32 bytes of q_y
PeerIdentity_deserialize(s) ==
    IF Len(s) < 32 THEN [ok |-> FALSE, val |-> <<>>]
    ELSE [ok |-> TRUE, val |-> Take(s, 32)]

\* Peers::next with only the catch-all arm of the match
Peers_next_CatchAll(tpe, mr) ==
    [item |-> "Err", err |-> "UnexpectedMessageType", peer |-> <<>>]

\* Peers::next from the frame (tpe, mr) on: the match on the message type
Peers_next(tpe, mr) ==
    LET err(e) == [item |-> "Err", err |-> e, peer |-> <<>>] IN
    IF tpe = GNUNET_MESSAGE_TYPE_PEERINFO_INFO
    THEN LET x == ReadUInt(mr, 4) IN
         IF ~x.ok THEN err("Disconnected")
         ELSE IF x.val # 0 THEN err("InvalidResponse")
         ELSE LET pi == PeerIdentity_deserialize(x.rest) IN
              IF ~pi.ok THEN err("Io")
              ELSE [item |-> "Ok", err |-> "", peer |-> pi.val]
    ELSE IF tpe = GNUNET_MESSAGE_TYPE_PEERINFO_INFO_END
    THEN [item |-> "None", err |-> "", peer |-> <<>>]
    ELSE [item |-> "Err", err |-> "UnexpectedMessageType", peer |-> <<>>, ty |-> tpe]

\* the request frame of iterate_peers
GetAllRequest == write_message(8, GNUNET_MESSAGE_TYPE_PEERINFO_GET_ALL, U32BE(0))

\* a connection to the peerinfo service is open and iterate_peers is about
\* to write its request
PeersInit ==
    /\ pPc = "start" /\ pWire = <<>> /\ pClosed = FALSE /\ pOut = <<>>
    /\ pLog = <<>> /\ pRead = 0 /\ pItems = <<>>

\* iterate_peers: the GET_ALL frame is written
IteratePeers ==
    /\ pPc = "start"
    /\ IF pClosed
       THEN pPc' = "failed" /\ pOut' = pOut
       ELSE pPc' = "iterating" /\ pOut' = pOut \o GetAllRequest
    /\ UNCHANGED <<pWire, pClosed, pLog, pRead, pItems, gnsVars, idVars, allocVars,
                   svcVars, fnVars>>

\* Peers::next when read_message fails: the error is an item of the
\* iterator; ReadErrorEnds is an iterator that ends on it
ReadErrorEnds == [item |-> "None", err |-> "", peer |-> <<>>]
ReadError == [item |-> "Err", err |-> "ReadMessage", peer |-> <<>>]

\* one call of Peers::next
PeersNext ==
    /\ pPc = "iterating" /\ Len(pItems) < MaxNext
    /\ LET r == read_message(pWire, pClosed) IN
       /\ r.res # "Blocked"
       /\ pWire' = Drop(pWire, r.used)
       /\ pRead' = IF r.res = "Ok" THEN pRead + 1 ELSE pRead
       /\ pItems' = Append(pItems,
                           IF r.res # "Ok" THEN ReadError
                           ELSE Peers_next(r.tpe, r.mr))
    /\ UNCHANGED <<pPc, pClosed, pOut, pLog, gnsVars, idVars, allocVars,
                   svcVars, fnVars>>

\* the frames the peerinfo service chooses from
PeerKey(k) == <<k>> \o Zeros(31)
InfoFrame(reserved, k, hello) ==
    write_message(4 + 4 + 32 + Len(hello), GNUNET_MESSAGE_TYPE_PEERINFO_INFO,
                  U32BE(reserved) \o PeerKey(k) \o hello)
InfoEndFrame == write_message(4, GNUNET_MESSAGE_TYPE_PEERINFO_INFO_END, <<>>)
PeerFrames ==
    {InfoFrame(0, 1, <<>>), InfoFrame(0, 2, <<7, 7>>), InfoEndFrame,
     InfoFrame(1, 1, <<>>),
     write_message(8, GNUNET_MESSAGE_TYPE_PEERINFO_INFO, U32BE(0)),
     write_message(6, GNUNET_MESSAGE_TYPE_PEERINFO_INFO, <<0, 0>>),
     GetAllRequest}

PeersSvcSend(f) ==
    /\ pPc # "off" /\ ~pClosed /\ Len(pLog) < MaxPeerFrames
    /\ pWire' = pWire \o f
    /\ pLog' = Append(pLog, f)
    /\ UNCHANGED <<pPc, pClosed, pOut, pRead, pItems, gnsVars, idVars, allocVars,
                   svcVars, fnVars>>

PeersSvcClose ==
    /\ pPc # "off" /\ ~pClosed
    /\ pClosed' = TRUE
    /\ UNCHANGED <<pPc, pWire, pOut, pLog, pRead, pItems, gnsVars, idVars, allocVars,
                   svcVars, fnVars>>

PeersStep ==
    \/ IteratePeers
    \/ PeersNext
    \/ \E f \in PeerFrames : PeersSvcSend(f)
    \/ PeersSvcClose

InitPeers == GnsInit /\ IdInit /\ AllocIdle /\ SvcIdle /\ FnIdle /\ PeersInit
SpecPeers == InitPeers /\ [][PeersStep]_vars

\* no identity client is made
IdOff ==
    /\ idPc = "off" /\ egos = EmptyMap /\ idName = <<>> /\ idWire = <<>>
    /\ idClosed = FALSE /\ idOut = <<>> /\ idRead = 0 /\ idSent = 0
    /\ idLog = <<>> /\ idRet = [res |-> "none", ego |-> <<>>]

\* the two synchronous clients: a run uses the identity client or the
\* peerinfo iterator
InitSync ==
    /\ GnsInit /\ AllocIdle /\ SvcIdle /\ FnIdle
    /\ (IdInit /\ PeersIdle) \/ (IdOff /\ PeersInit)
SyncStep == IdNext \/ PeersStep
SpecSync == InitSync /\ [][SyncStep]_vars

-----------------------------------------------------------------------------
(* One connection used through the frame codec (src/service/mod.rs).       *)

\* service::connect is about to be called
SvcInit ==
    /\ sPc = "start" /\ sRet = NotConnected
    /\ sGrow \in {"exact", "amortized"} /\ sPeer \in {"echo", "raw"}
    /\ msgWriter = NoWriter /\ sOut = <<>> /\ sFrames = <<>> /\ sIn = <<>>
    /\ sEcho = <<>> /\ sEnd = "open" /\ sRawN = 0 /\ sMsgs = <<>> /\ sRd = NoRead

CfgLookups == {"Path", "NoSection", "NoKey", "ExpandError"}

\* service::connect
ServiceConnect ==
    /\ sPc = "start"
    /\ \E cfg \in CfgLookups, connectOk \in BOOLEAN, cloneOk \in BOOLEAN :
          /\ sRet' = service_connect(cfg, connectOk, cloneOk)
                      @@ [cfg |-> cfg, connectOk |-> connectOk, cloneOk |-> cloneOk]
          /\ sPc' = IF sRet'.res = "Ok" THEN "connected" ELSE "failed"
    /\ UNCHANGED <<sGrow, sPeer, msgWriter, sOut, sFrames, sIn, sEcho, sEnd, sRawN,
                   sMsgs, sRd, gnsVars, idVars, allocVars, peerVars,
                   fnVars>>

\* the <<length, type>> pairs and the chunks the client chooses from
Requests == {<<3, 1>>, <<4, 1>>, <<4, 258>>, <<5, 258>>, <<260, 1>>}
Chunks == {<<7>>, Zeros(4), Zeros(255)}

\* ServiceWriter::write_message(len, tpe); the writer stays idle opposite a
\* raw peer
WriteMessage(len, tpe) ==
    /\ sPc = "connected" /\ msgWriter.st = "none"
    /\ sPeer = "echo" /\ Len(sFrames) < MaxSvcFrames
    /\ LET w == MessageWriter_new(len, tpe) IN
       IF w.st = "panic"
       THEN sPc' = "aborted" /\ msgWriter' = msgWriter
       ELSE sPc' = sPc /\ msgWriter' = w @@ [n |-> 0]
    /\ UNCHANGED <<sRet, sGrow, sPeer, sOut, sFrames, sIn, sEcho, sEnd, sRawN,
                   sMsgs, sRd, gnsVars, idVars, allocVars, peerVars,
                   fnVars>>

\* one write into the MessageWriter
MwWrite(buf) ==
    /\ sPc = "connected" /\ msgWriter.st = "open"
    /\ msgWriter.n < MaxWrites
    /\ msgWriter' = [MessageWriter_write(sGrow, msgWriter, buf) EXCEPT !.n = @ + 1]
    /\ sOut' = sOut \o Write_connection(buf)
    /\ UNCHANGED <<sPc, sRet, sGrow, sPeer, sFrames, sIn, sEcho, sEnd, sRawN,
                   sMsgs, sRd, gnsVars, idVars, allocVars, peerVars,
                   fnVars>>

\* MessageWriter::send returns when the buffer is written to the socket; an
\* echoing peer on that socket then holds the bytes
MwSend ==
    /\ sPc = "connected" /\ msgWriter.st = "open"
    /\ msgWriter' = NoWriter
    /\ IF ~send_assert(msgWriter)
       THEN sPc' = "aborted" /\ UNCHANGED <<sOut, sFrames, sEcho>>
       ELSE /\ sPc' = sPc
            /\ sOut' = sOut \o msgWriter.v
            /\ sFrames' = Append(sFrames, [len |-> msgWriter.len, tpe |-> msgWriter.tpe,
                                            v |-> msgWriter.v])
            /\ sEcho' = IF sPeer = "echo" THEN sEcho \o msgWriter.v ELSE sEcho
    /\ UNCHANGED <<sRet, sGrow, sPeer, sIn, sEnd, sRawN, sMsgs, sRd,
                   gnsVars, idVars, allocVars, peerVars,
                   fnVars>>

\* the MessageWriter is dropped without send
MwDrop ==
    /\ sPc = "connected" /\ msgWriter.st = "open"
    /\ msgWriter' = NoWriter
    /\ UNCHANGED <<sPc, sRet, sGrow, sPeer, sOut, sFrames, sIn, sEcho, sEnd, sRawN,
                   sMsgs, sRd, gnsVars, idVars, allocVars, peerVars,
                   fnVars>>

\* ServiceReader::read_message is called: read_u16 issues the first read of
\* the connection, which blocks when the open stream holds no byte
ReadMessage ==
    /\ sPc = "connected" /\ sRd.pc = "idle" /\ Len(sMsgs) < MaxReads
    /\ sRd' = [pc |-> "len", buf |-> <<>>, need |-> 2,
               blocked |-> (sIn = <<>> /\ sEnd = "open")]
    /\ UNCHANGED <<sPc, sRet, sGrow, sPeer, msgWriter, sOut, sFrames, sIn, sEcho, sEnd,
                   sRawN, sMsgs, gnsVars, idVars, allocVars, peerVars, fnVars>>

\* the read of the connection that read_message waits in returns: the loop of
\* read_u16 or of read_exact takes what it got and reads again, or the call
\* goes on to the body, or it returns
ConnectionRead ==
    /\ sPc = "connected" /\ sRd.pc # "idle"
    /\ LET r == connection_read(sIn, sEnd, sRd.need - Len(sRd.buf))
           n == read_message_step(sRd, r)
       IN
       /\ r.res # "Blocked"
       /\ sIn' = Drop(sIn, Len(r.got))
       /\ sEnd' = read_end_after(sEnd, IF n.pc = "ret" THEN n.ret.res ELSE "none")
       /\ IF n.pc = "ret"
          THEN /\ sMsgs' = Append(sMsgs, n.ret @@ [end |-> sEnd, blocked |-> sRd.blocked])
               /\ sRd' = NoRead
          ELSE /\ sMsgs' = sMsgs
               /\ sRd' = [pc |-> n.pc, buf |-> n.buf, need |-> n.need,
                          blocked |-> (sIn' = <<>> /\ sEnd' = "open")]
    /\ UNCHANGED <<sPc, sRet, sGrow, sPeer, msgWriter, sOut, sFrames, sEcho, sRawN,
                   gnsVars, idVars, allocVars, peerVars, fnVars>>

\* the echoing peer sends back what it has received, and the bytes arrive at
\* the reader, which holds the socket of the writer; a read that was blocked
\* can then return
PeerEcho ==
    /\ sPc = "connected" /\ sPeer = "echo" /\ sEcho # <<>>
    /\ sEnd = "open" /\ sRet.reader = sRet.writer
    /\ sIn' = sIn \o sEcho
    /\ sEcho' = <<>>
    /\ UNCHANGED <<sPc, sRet, sGrow, sPeer, msgWriter, sOut, sFrames, sEnd, sRawN, sMsgs,
                   sRd, gnsVars, idVars, allocVars, peerVars, fnVars>>

\* the byte chunks a raw peer chooses from
RawChunks == {<<0>>, <<0, 3>>, <<0, 5, 1>>, <<0, 4, 0, 9>>, <<2, 2>>}

\* a raw peer sends bytes
PeerSend(bytes) ==
    /\ sPc = "connected" /\ sPeer = "raw" /\ sEnd = "open" /\ sRawN < MaxRaw
    /\ sIn' = sIn \o bytes
    /\ sRawN' = sRawN + 1
    /\ UNCHANGED <<sPc, sRet, sGrow, sPeer, msgWriter, sOut, sFrames, sEcho, sEnd, sMsgs,
                   sRd, gnsVars, idVars, allocVars, peerVars, fnVars>>

\* the read direction ends: the raw peer closes, or the connection fails
PeerEnd(end) ==
    /\ sPc = "connected" /\ sPeer = "raw" /\ sEnd = "open"
    /\ sEnd' = end
    /\ UNCHANGED <<sPc, sRet, sGrow, sPeer, msgWriter, sOut, sFrames, sIn, sEcho, sRawN,
                   sMsgs, sRd,
                   gnsVars, idVars, allocVars, peerVars,
                   fnVars>>

ServiceStep ==
    \/ ServiceConnect
    \/ \E r \in Requests : WriteMessage(r[1], r[2])
    \/ \E buf \in Chunks : MwWrite(buf)
    \/ MwSend
    \/ MwDrop
    \/ ReadMessage
    \/ ConnectionRead
    \/ PeerEcho
    \/ \E bytes \in RawChunks : PeerSend(bytes)
    \/ \E end \in {"eof", "reset"} : PeerEnd(end)

InitService == GnsInit /\ IdInit /\ AllocIdle /\ PeersIdle /\ FnIdle /\ SvcInit
SpecService == InitService /\ [][ServiceStep]_vars

-----------------------------------------------------------------------------
(* data.rs: Crockford base32.  A string is a sequence of one-character     *)
(* strings, a byte slice a sequence of numbers in 0..255.                  *)

ENCODE_CHARS ==
    <<"0", "1", "2", "3", "4", "5", "6", "7", "8", "9", "A", "B", "C", "D",
      "E", "F", "G", "H", "J", "K", "M", "N", "P", "Q", "R", "S", "T", "V",
      "W", "X", "Y", "Z">>

\* bitwise or of two unsigned numbers
RECURSIVE BitOr(_, _)
BitOr(a, b) ==
    IF a = 0 THEN b
    ELSE IF b = 0 THEN a
    ELSE (IF a % 2 = 1 \/ b % 2 = 1 THEN 1 ELSE 0)
         + 2 * BitOr(a \div 2, b \div 2)

\* x << k and x >> k on a u8: the bits shifted out are lost
Shl8(x, k) == (x * (2 ^ k)) % 256
Shr8(x, k) == x \div (2 ^ k)

\* the digit the decoder reads in the character c, -1 for a character it
\* refuses
decode_digit(c) ==
    CASE c \in {"0", "O", "o"} -> 0
      [] c \in {"1", "I", "i", "L", "l"} -> 1
      [] c = "2" -> 2
      [] c = "3" -> 3
      [] c = "4" -> 4
      [] c = "5" -> 5
      [] c = "6" -> 6
      [] c = "7" -> 7
      [] c = "8" -> 8
      [] c = "9" -> 9
      [] c \in {"a", "A"} -> 10
      [] c \in {"b", "B"} -> 11
      [] c \in {"c", "C"} -> 12
      [] c \in {"d", "D"} -> 13
      [] c \in {"e", "E"} -> 14
      [] c \in {"f", "F"} -> 15
      [] c \in {"g", "G"} -> 16
      [] c \in {"h", "H"} -> 17
      [] c \in {"j", "J"} -> 18
      [] c \in {"k", "K"} -> 19
      [] c \in {"m", "M"} -> 20
      [] c \in {"n", "N"} -> 21
      [] c \in {"p", "P"} -> 22
      [] c \in {"q", "Q"} -> 23
      [] c \in {"r", "R"} -> 24
      [] c \in {"s", "S"} -> 25
      [] c \in {"t", "T"} -> 26
      [] c \in {"u", "U", "v", "V"} -> 27
      [] c \in {"w", "W"} -> 28
      [] c \in {"x", "X"} -> 29
      [] c \in {"y", "Y"} -> 30
      [] c \in {"z", "Z"} -> 31
      [] OTHER -> -1

\* the test made on the character that completes the last byte of the
\* buffer: the bits of the digit that would go to the next byte;
\* TrailingBitsNever is the decoder without this test
TrailingBitsNever(d, shift) == FALSE
TrailingBits(d, shift) == Shl8(d, shift) # 0

\* the loop of crockford_decode from the character i on; dp counts from 0
\* as in the source
RECURSIVE DecodeLoop(_, _, _, _, _)
DecodeLoop(enc, i, dec, shift, dp) ==
    IF i > Len(enc) THEN [res |-> "Ok", dec |-> dec]
    ELSE
      LET d == decode_digit(enc[i])
          carry == shift < 0
          dec1 == IF carry
                  THEN [dec EXCEPT ![dp + 1] = BitOr(@, Shr8(d, -shift))]
                  ELSE dec
          dp1 == IF carry THEN dp + 1 ELSE dp
          shift1 == IF carry THEN shift + 8 ELSE shift
      IN  IF d < 0 THEN [res |-> "InvalidChar", dec |-> dec]
          ELSE IF carry /\ dp1 = Len(dec)
          THEN [res |-> IF TrailingBits(d, shift1) THEN "TrailingBits"
                        ELSE "Ok",
                dec |-> dec1]
          ELSE IF dp1 >= Len(dec)
          THEN [res |-> "panic", dec |-> dec1]   \* index out of bounds
          ELSE DecodeLoop(enc, i + 1,
                          [dec1 EXCEPT ![dp1 + 1] = BitOr(@, Shl8(d, shift1))],
                          shift1 - 5, dp1)

\* char::len_utf8 on the characters of this model, of which "U+00E9" (an e
\* with an acute accent) is the one outside ASCII
len_utf8(c) == IF c = "U+00E9" THEN 2 ELSE 1

\* str::len: the length of a string in bytes
RECURSIVE str_len(_)
str_len(s) == IF s = <<>> THEN 0 ELSE len_utf8(Head(s)) + str_len(Tail(s))

\* crockford_decode(enc, dec) on a buffer of dec_len bytes: the result and
\* the buffer as the call leaves it.  The size test is on the bytes of enc,
\* the loop is over its characters.
crockford_decode(enc, dec_len) ==
    IF (str_len(enc) * 5) \div 8 # dec_len
    THEN [res |-> "SizeMismatch", dec |-> <<>>]
    ELSE DecodeLoop(enc, 1, [k \in 1..dec_len |-> 0], 3, 0)

\* the while loop of crockford_encode_fmt on the byte b
RECURSIVE EncodeWhile(_, _, _, _)
EncodeWhile(b, shift, next_char, acc) ==
    IF shift >= 0
    THEN EncodeWhile(b, shift - 5, 0,
             Append(acc,
                    ENCODE_CHARS[BitOr(next_char, Shr8(b, shift) % 32) + 1]))
    ELSE [shift |-> shift, next_char |-> next_char, acc |-> acc]

\* crockford_encode_fmt from the byte i on
RECURSIVE EncodeLoop(_, _, _, _, _)
EncodeLoop(buf, i, shift, next_char, acc) ==
    IF i > Len(buf)
    THEN IF shift > 3 THEN Append(acc, ENCODE_CHARS[next_char + 1]) ELSE acc
    ELSE LET w == EncodeWhile(buf[i], shift, next_char, acc)
         IN  EncodeLoop(buf, i + 1, w.shift + 8,
                        BitOr(w.next_char, Shl8(buf[i], -w.shift) % 32),
                        w.acc)

crockford_encode(buf) == EncodeLoop(buf, 1, 3, 0, <<>>)

\* the strings and buffer sizes the functions are called on
MaxEncLen == 9
InputChars == {"0", "4", "G", "Z"}
Strs(chars, n) == UNION {[1..k -> chars] : k \in 0..n}
\* short strings with characters outside the canonical alphabet: U, which
\* the decoder reads as V, and a character of two bytes, which it refuses
OtherStrs == Strs({"0", "Z", "U", "U+00E9"}, 3)

\* the buffer is as long as the size test asks for, as long as the count of
\* the characters would ask for, or longer
BufferSizes(enc) == {(str_len(enc) * 5) \div 8, (Len(enc) * 5) \div 8, Len(enc) + 1}
CrockfordInit ==
    /\ fnName = "crockford"
    /\ \/ \E k \in 0..MaxEncLen : \E enc \in [1..k -> InputChars] :
             \E len \in BufferSizes(enc) : fnIn = [enc |-> enc, len |-> len]
       \/ \E enc \in OtherStrs :
             \E len \in BufferSizes(enc) : fnIn = [enc |-> enc, len |-> len]
    /\ fnOut = [step |-> 0]

\* a caller decodes the string into a buffer of the chosen size
CrockfordDecode ==
    /\ fnName = "crockford"
    /\ fnOut.step = 0
    /\ fnOut' = [step |-> 1, dec |-> crockford_decode(fnIn.enc, fnIn.len)]
    /\ UNCHANGED <<gnsVars, idVars, allocVars, peerVars, svcVars, fnName,
                   fnIn>>

\* and encodes the bytes it got
CrockfordEncode ==
    /\ fnName = "crockford"
    /\ fnOut.step = 1
    /\ fnOut.dec.res = "Ok"
    /\ fnOut' = [step |-> 2, dec |-> fnOut.dec,
                 enc |-> crockford_encode(fnOut.dec.dec)]
    /\ UNCHANGED <<gnsVars, idVars, allocVars, peerVars, svcVars, fnName,
                   fnIn>>

DataStep == CrockfordDecode \/ CrockfordEncode

InitData ==
    GnsInit /\ IdInit /\ AllocIdle /\ PeersIdle /\ SvcIdle /\ CrockfordInit

SpecData == InitData /\ [][DataStep]_vars

-----------------------------------------------------------------------------
(* time.rs, util/strings.rs: Relative::from_str.  A u64 is kept as its     *)
(* bytes, least significant first and without leading zero bytes, so that  *)
(* a product that does not fit in 64 bits can be told from one that does.  *)

\* drop the most significant zero bytes
RECURSIVE Norm(_)
Norm(a) ==
    IF a # <<>> /\ a[Len(a)] = 0 THEN Norm(SubSeq(a, 1, Len(a) - 1)) ELSE a

\* the bytes of a small number
RECURSIVE Big(_)
Big(n) == IF n = 0 THEN <<>> ELSE <<n % 256>> \o Big(n \div 256)

RECURSIVE AddC(_, _, _, _)
AddC(a, b, i, c) ==
    IF i > Len(a) /\ i > Len(b) THEN Big(c)
    ELSE LET x == (IF i <= Len(a) THEN a[i] ELSE 0)
                  + (IF i <= Len(b) THEN b[i] ELSE 0) + c
         IN  <<x % 256>> \o AddC(a, b, i + 1, x \div 256)

\* a + b, exact
BigAdd(a, b) == Norm(AddC(a, b, 1, 0))

RECURSIVE MulC(_, _, _, _)
MulC(a, m, i, c) ==
    IF i > Len(a) THEN Big(c)
    ELSE LET x == a[i] * m + c
         IN  <<x % 256>> \o MulC(a, m, i + 1, x \div 256)

\* a * b, exact
RECURSIVE BigMul(_, _)
BigMul(a, b) ==
    IF b = <<>> THEN <<>>
    ELSE Norm(AddC(MulC(a, b[1], 1, 0), <<0>> \o BigMul(a, Tail(b)), 1, 0))

\* the value fits in a u64; what a wrapping operation keeps of it
Fits64(a) == Len(a) <= 8
Wrap64(a) == Norm(SubSeq(a, 1, IF Len(a) < 8 THEN Len(a) ELSE 8))

RELATIVE_UNITS ==
    LET ms == Big(1000)
        sec == BigMul(Big(1000), Big(1000))
        min == BigMul(Big(60), sec)
        hour == BigMul(Big(60), min)
        day == BigMul(Big(24), hour)
        week == BigMul(Big(7), day)
        year == BigMul(Big(31536), BigMul(Big(1000), sec))
    IN  << <<(<<"u", "s">>), Big(1)>>,
           <<(<<"m", "s">>), ms>>,
           <<(<<"s">>), sec>>,
           <<(<<"\"">>), sec>>,
           <<(<<"m">>), min>>,
           <<(<<"m", "i", "n">>), min>>,
           <<(<<"m", "i", "n", "u", "t", "e", "s">>), min>>,
           <<(<<"'">>), min>>,
           <<(<<"h">>), hour>>,
           <<(<<"d">>), day>>,
           <<(<<"d", "a", "y">>), day>>,
           <<(<<"d", "a", "y", "s">>), day>>,
           <<(<<"w", "e", "e", "k">>), week>>,
           <<(<<"w", "e", "e", "k", "s">>), week>>,
           <<(<<"y", "e", "a", "r">>), year>>,
           <<(<<"y", "e", "a", "r", "s">>), year>>,
           <<(<<"a">>), year>> >>

\* char::is_whitespace, the test of str::trim: the characters with the
\* Unicode property White_Space.  A character is a string: itself, its
\* escape, or "U+" and its code point where the notation has neither.
IsWhitespace(c) ==
    c \in {"\t", "\n", "U+000B", "\f", "\r", " ", "U+0085", "U+00A0", "U+1680",
           "U+2000", "U+2001", "U+2002", "U+2003", "U+2004", "U+2005", "U+2006",
           "U+2007", "U+2008", "U+2009", "U+200A", "U+2028", "U+2029", "U+202F",
           "U+205F", "U+3000"}
\* str::trim leaves nothing of s
TrimIsEmpty(s) == \A k \in 1..Len(s) : IsWhitespace(s[k])

\* s.split(' '): the pieces between the spaces, the empty ones included
RECURSIVE SplitFrom(_, _, _)
SplitFrom(s, i, piece) ==
    IF i > Len(s) THEN <<piece>>
    ELSE IF s[i] = " " THEN <<piece>> \o SplitFrom(s, i + 1, <<>>)
    ELSE SplitFrom(s, i + 1, Append(piece, s[i]))

Split(s) == SplitFrom(s, 1, <<>>)

DecimalDigits == <<"0", "1", "2", "3", "4", "5", "6", "7", "8", "9">>
IsDigit(c) == \E d \in 1..10 : DecimalDigits[d] = c
DigitOf(c) == (CHOOSE d \in 1..10 : DecimalDigits[d] = c) - 1

\* the digit loop of u64::from_str: checked multiply by ten and add
RECURSIVE FromDigits(_, _, _)
FromDigits(t, i, acc) ==
    IF i > Len(t) THEN [ok |-> TRUE, val |-> acc]
    ELSE IF ~IsDigit(t[i]) THEN [ok |-> FALSE, val |-> <<>>]
    ELSE LET nxt == BigAdd(BigMul(acc, Big(10)), Big(DigitOf(t[i])))
         IN  IF Fits64(nxt) THEN FromDigits(t, i + 1, nxt)
             ELSE [ok |-> FALSE, val |-> <<>>]

\* u64::from_str: an optional plus sign, then at least one digit
u64_from_str(t) ==
    LET digits == IF t # <<>> /\ t[1] = "+" THEN Tail(t) ELSE t
    IN  IF digits = <<>> THEN [ok |-> FALSE, val |-> <<>>]
        ELSE FromDigits(digits, 1, <<>>)

\* the multiplier of the first unit of the table that is called unit
HasUnit(units, unit) == \E k \in 1..Len(units) : units[k][1] = unit
UnitMultiplier(units, unit) ==
    units[CHOOSE k \in 1..Len(units) :
              /\ units[k][1] = unit
              /\ \A j \in 1..(k - 1) : units[j][1] # unit][2]

\* result += amount * multiplier on u64: an overflow panics in a debug
\* build and wraps in a release build
AddProduct(result, amount, multiplier, build) ==
    LET prod == BigMul(amount, multiplier)
        sum == BigAdd(result, Wrap64(prod))
    IN  IF build = "debug" /\ (~Fits64(prod) \/ ~Fits64(sum))
        THEN [ok |-> FALSE, val |-> <<>>]
        ELSE [ok |-> TRUE, val |-> Wrap64(sum)]

\* the index of the first piece from i on that is not empty, 0 if none
RECURSIVE NextPiece(_, _)
NextPiece(pieces, i) ==
    IF i > Len(pieces) THEN 0
    ELSE IF pieces[i] = <<>> THEN NextPiece(pieces, i + 1)
    ELSE i

\* the outer loop of parse_quantity_with_units from the piece i on
RECURSIVE QuantityLoop(_, _, _, _, _)
QuantityLoop(pieces, i, result, units, build) ==
    LET a == NextPiece(pieces, i)
        amount == u64_from_str(pieces[a])
        u == NextPiece(pieces, a + 1)
        sum == AddProduct(result, amount.val,
                          UnitMultiplier(units, pieces[u]), build)
    IN  IF a = 0 THEN [res |-> "Ok", micros |-> result]
        ELSE IF ~amount.ok THEN [res |-> "ParseInt", micros |-> <<>>]
        ELSE IF u = 0 THEN [res |-> "MissingUnit", micros |-> <<>>]
        ELSE IF ~HasUnit(units, pieces[u])
        THEN [res |-> "NoSuchUnit", micros |-> <<>>]
        ELSE IF ~sum.ok THEN [res |-> "panic", micros |-> <<>>]
        ELSE QuantityLoop(pieces, u + 1, sum.val, units, build)

parse_quantity_with_units(s, units, build) ==
    IF TrimIsEmpty(s) THEN [res |-> "EmptyString", micros |-> <<>>]
    ELSE QuantityLoop(Split(s), 1, <<>>, units, build)

Relative_from_str(s, build) ==
    parse_quantity_with_units(s, RELATIVE_UNITS, build)

\* the strings from_str is called on: up to MaxTokens words, each with what
\* it stands for, and the number of spaces before the first word and after
\* each word
MaxTokens == 4
U64_MAX == <<255, 255, 255, 255, 255, 255, 255, 255>>
Tokens ==
    { [text |-> <<"3">>, kind |-> "amount", val |-> Big(3)],
      [text |-> <<"1", "0">>, kind |-> "amount", val |-> Big(10)],
      [text |-> <<"1", "8", "4", "4", "6", "7", "4", "4", "0", "7", "3", "7",
                  "0", "9", "5", "5", "1", "6", "1", "5">>,
       kind |-> "amount", val |-> U64_MAX],
      [text |-> <<"m", "i", "n">>, kind |-> "unit", val |-> Big(60000000)],
      [text |-> <<"s">>, kind |-> "unit", val |-> Big(1000000)],
      [text |-> <<"b", "a", "l", "l", "s">>, kind |-> "junk", val |-> <<>>],
      [text |-> <<"\f">>, kind |-> "junk", val |-> <<>>] }
GapPatterns ==
    { <<0, 1, 1, 1, 0, 1, 0>>, <<1, 3, 2, 1, 3, 2, 1>>, <<2, 1, 0, 2, 1, 0, 1>> }

Spaces(n) == [k \in 1..n |-> " "]

RECURSIVE Sentence(_, _, _)
Sentence(toks, gaps, i) ==
    IF i > Len(toks) THEN <<>>
    ELSE toks[i].text \o Spaces(gaps[i + 1]) \o Sentence(toks, gaps, i + 1)

FromStrInit ==
    /\ fnName = "from_str"
    /\ \E k \in 0..MaxTokens :
       \E toks \in [1..k -> Tokens] :
       \E gaps \in GapPatterns :
       \E build \in {"debug", "release"} :
           fnIn = [toks |-> toks, gaps |-> gaps, build |-> build,
                   s |-> Spaces(gaps[1]) \o Sentence(toks, gaps, 1)]
    /\ fnOut = [step |-> 0]

RelativeFromStr ==
    /\ fnName = "from_str"
    /\ fnOut.step = 0
    /\ fnOut' = [step |-> 1, ret |-> Relative_from_str(fnIn.s, fnIn.build)]
    /\ UNCHANGED <<gnsVars, idVars, allocVars, peerVars, svcVars, fnName,
                   fnIn>>

InitTime ==
    GnsInit /\ IdInit /\ AllocIdle /\ PeersIdle /\ SvcIdle /\ FromStrInit

SpecTime == InitTime /\ [][RelativeFromStr]_vars

-----------------------------------------------------------------------------
(* The request frames of the bindings, built write by write as the code    *)
(* builds them: the declared length, the type and the sequence of writes.  *)

\* GNS::lookup, with no shorten zone, a zero zone key, record type A and
\* LocalOptions::Default
LookupWrites(id, name) ==
    [len |-> 80 + Len(name) + 1, tpe |-> GNUNET_MESSAGE_TYPE_GNS_LOOKUP,
     writes |-> <<U32BE(id), Zeros(32), U16BE(0), U16BE(0), U32BE(1),
                  Zeros(32), name, <<0>> >>]

\* IdentityService::connect: START
IdentityStartWrites ==
    [len |-> 4, tpe |-> GNUNET_MESSAGE_TYPE_IDENTITY_START, writes |-> <<>>]

\* IdentityService::get_default_ego
GetDefaultWrites(name) ==
    [len |-> 8 + Len(name) + 1, tpe |-> GNUNET_MESSAGE_TYPE_IDENTITY_GET_DEFAULT,
     writes |-> <<U16BE(Len(name) + 1), U16BE(0), name, <<0>> >>]

\* peerinfo::iterate_peers
GetAllWrites ==
    [len |-> 8, tpe |-> GNUNET_MESSAGE_TYPE_PEERINFO_GET_ALL,
     writes |-> <<U32BE(0)>>]

\* TransportService::init: START
TransportStartWrites ==
    [len |-> 2 + 4 + 32, tpe |-> GNUNET_MESSAGE_TYPE_TRANSPORT_START,
     writes |-> <<U32BE(0), Zeros(32)>>]

\* the operation op refuses the name before it builds a frame
NameTooLong(op, name) ==
    \/ op = "gns_lookup" /\ Len(name) > GNUNET_DNSPARSER_MAX_NAME_LENGTH
    \/ op = "identity_get_default" /\ 8 + Len(name) + 1 > 65535

\* the request of the operation op on the name name
RequestOf(op, name) ==
    CASE op = "gns_lookup" -> LookupWrites(0, name)
      [] op = "identity_start" -> IdentityStartWrites
      [] op = "identity_get_default" -> GetDefaultWrites(name)
      [] op = "peerinfo_get_all" -> GetAllWrites
      [] op = "transport_start" -> TransportStartWrites

\* the writes ws[i..], one after the other, on the MessageWriter w
RECURSIVE WriteEach(_, _, _, _)
WriteEach(policy, w, ws, i) ==
    IF i > Len(ws) THEN w
    ELSE WriteEach(policy, MessageWriter_write(policy, w, ws[i]), ws, i + 1)

\* the names and operations the requests are built for
MaxReqName == 8
ReqNames ==
    {[k \in 1..n |-> 97] : n \in 0..MaxReqName}
        \cup {[k \in 1..n |-> 97] : n \in {GNUNET_DNSPARSER_MAX_NAME_LENGTH,
                                            GNUNET_DNSPARSER_MAX_NAME_LENGTH + 1}}
ReqOps == {"gns_lookup", "identity_start", "identity_get_default",
           "peerinfo_get_all", "transport_start"}

RequestInit ==
    /\ fnName = "request"
    /\ \E op \in ReqOps :
       \E name \in IF op \in {"gns_lookup", "identity_get_default"}
                   THEN ReqNames ELSE {<<>>} :
       \E policy \in {"exact", "amortized"} :
           fnIn = [op |-> op, name |-> name, policy |-> policy]
    /\ fnOut = [step |-> 0]

\* write_message and the writes of the payload
RequestBuild ==
    /\ fnName = "request"
    /\ fnOut.step = 0
    /\ LET r == RequestOf(fnIn.op, fnIn.name) IN
       fnOut' = IF NameTooLong(fnIn.op, fnIn.name)
                THEN [step |-> 2, res |-> "NameTooLong"]
                ELSE [step |-> 1,
                      w |-> WriteEach(fnIn.policy,
                                      MessageWriter_new(r.len, r.tpe),
                                      r.writes, 1)]
    /\ UNCHANGED <<gnsVars, idVars, allocVars, peerVars, svcVars, fnName,
                   fnIn>>

\* mw.send(): the assertion, then the buffer goes to the connection
RequestSend ==
    /\ fnName = "request"
    /\ fnOut.step = 1
    /\ fnOut' = IF send_assert(fnOut.w)
                THEN [step |-> 2, res |-> "Ok", w |-> fnOut.w,
                      sent |-> fnOut.w.v]
                ELSE [step |-> 2, res |-> "panic", w |-> fnOut.w,
                      sent |-> <<>>]
    /\ UNCHANGED <<gnsVars, idVars, allocVars, peerVars, svcVars, fnName,
                   fnIn>>

RequestStep == RequestBuild \/ RequestSend

InitRequests ==
    GnsInit /\ IdInit /\ AllocIdle /\ PeersIdle /\ SvcIdle /\ RequestInit

SpecRequests == InitRequests /\ [][RequestStep]_vars

-----------------------------------------------------------------------------

Next ==
    \/ \E name \in Names : LookupStart(name)
    \/ LookupFinish
    \/ Recv
    \/ \E h \in DOMAIN chan : DropHandle(h)
    \/ DropGNS
    \/ DropLookupTx
    \/ \E r \in Replies : SvcSend("reply", r[1], r[2], r[3])
    \/ \E kind \in {"other", "short"} : SvcSend(kind, 0, 0, 0)
    \/ SvcClose
    \/ LoopRead
    \/ LoopCallback
    \/ HandlerSend
    \/ LoopReturn

Spec == Init /\ [][Next]_vars

\* the handler reaching its first send or its return, seen from the
\* position of the loop thread alone: under Next these are exactly the steps
\* of LoopCallback, which is enabled whenever the thread is in the callback
CallbackReturns == loopPc = "callback" /\ loopPc' \in {"send", "return"}

\* the loop thread is scheduled: a read that can return returns, and the
\* handler returns
\* the actions that bear on the life of the loop thread.  Recv and DropHandle
\* are left out: they read and write chan, lastRecv, fg and ret only, and no
\* step of the loop or of the service depends on those; a name that is too
\* long is left out because such a call changes nothing but ret.
NextDrop ==
    \/ LookupStart(ShortName)
    \/ LookupFinish
    \/ DropGNS
    \/ DropLookupTx
    \/ \E r \in Replies : SvcSend("reply", r[1], r[2], r[3])
    \/ \E kind \in {"other", "short"} : SvcSend(kind, 0, 0, 0)
    \/ SvcClose
    \/ LoopRead
    \/ LoopCallback
    \/ HandlerSend
    \/ LoopReturn

FairDrop ==
    /\ Init /\ [][NextDrop]_vars
    /\ WF_vars(LoopRead) /\ WF_loopPc(CallbackReturns) /\ WF_vars(HandlerSend)
    /\ WF_vars(LoopReturn)

\* gns::lookup against a service that keeps the connection up and sends
\* LOOKUP_RESULT frames of one record, for the id of the request or another:
\* GNS::connect, one GNS::lookup, one recv on its handle, and the return,
\* which drops the handle and then the GNS value
OneRecordReplies == {<<id, 1, 1>> : id \in 0..MaxLookups}
LookupOnce == lookup_id = 0 /\ LookupStart(ShortName)
\* Ok(h.recv()): the one recv of the function
LookupFnRecv == chan # <<>> /\ lastRecv[1] = <<>> /\ Recv
\* the function returns, or unwinds: h goes out of scope
LookupFnDropHandle ==
    /\ chan # <<>> /\ (lastRecv[1] # <<>> \/ fg.pc = "panicked")
    /\ DropHandle(1)
\* and after h the GNS value gns
LookupFnDropGNS == chan # <<>> /\ ~chan[1].rx /\ DropGNS
NextLookupFn ==
    \/ LookupOnce
    \/ LookupFinish
    \/ LookupFnRecv
    \/ LookupFnDropHandle
    \/ LookupFnDropGNS
    \/ DropLookupTx
    \/ \E r \in OneRecordReplies : SvcSend("reply", r[1], r[2], r[3])
    \/ LoopRead
    \/ LoopCallback
    \/ HandlerSend
    \/ LoopReturn

\* the caller runs on, and the loop thread is scheduled
FairLookupFn ==
    /\ Init /\ [][NextLookupFn]_vars
    /\ WF_vars(LookupFinish) /\ WF_vars(LookupFnRecv)
    /\ WF_vars(LookupFnDropHandle) /\ WF_vars(LookupFnDropGNS) /\ WF_vars(DropLookupTx)
    /\ WF_vars(LoopRead) /\ WF_loopPc(CallbackReturns) /\ WF_vars(HandlerSend)
    /\ WF_vars(LoopReturn)

-----------------------------------------------------------------------------
(* Properties.                                                             *)

\* what a handle has seen and will see: the record recv returned last,
\* followed by the records queued on its channel
Seen(h) == lastRecv[h] \o chan[h].queue

\* the step of the loop thread that runs the handler on the frame cur, from
\* its start to its first send or, if it sends nothing, to its return
CallbackStep == loopPc = "callback" /\ loopPc' # "callback"

\* a step in which the handler sends one record of the frame cur, and the
\* channel as that send leaves it, and as it would were no Receiver dropped
RecordSendStep == loopPc = "send" /\ cur' # cur
AfterSend ==
    IF chan[cur.to].rx
    THEN [chan EXCEPT ![cur.to].queue = Append(@, Head(cur.left))]
    ELSE chan
AfterSendAlways == [chan EXCEPT ![cur.to].queue = Append(@, Head(cur.left))]
\* the handler goes on to the next record, or has sent the last one
SendsOn ==
    IF Len(cur.left) > 1
    THEN loopPc' = "send" /\ cur' = [cur EXCEPT !.left = Tail(@)]
    ELSE loopPc' = "return" /\ cur' = [cur EXCEPT !.left = <<>>]

\* the step in which the loop thread, the handler having returned or the
\* read having failed, reads on or returns; what the handler returned; and
\* where that step leaves the loop
ReturnStep == loopPc = "return" /\ loopPc' # "return"
ResultReturned == cur.result
GoesOn == loopPc' = "read" /\ chan' = chan /\ handles' = handles
EndsLoop == loopPc' = "exited" /\ chan' = chan /\ handles' = EmptyMap /\ lookup_q' = <<>>

\* the handles map as the handler sees it after its registration drain
Registry == Drain(lookup_q, handles)

\* cur is a LOOKUP_RESULT in which the service put as many records as it
\* announced
WellFormedReply == cur.meta.kind = "reply" /\ cur.meta.n = cur.meta.rd_count

\* C1: every record that recv returned on the handle of request id i, and
\* every record queued for that handle, is a record the service put into a
\* LOOKUP_RESULT frame whose embedded request id is i.
C1_NoMisdelivery ==
    \A h \in DOMAIN chan : \A k \in DOMAIN Seen(h) :
        \E no \in 1..nsent : \E i \in 1..2 :
            Seen(h)[k] = RecordValue(chan[h].id, no, i)

\* two lookups are outstanding, the handle of the second one has received a
\* record and records are queued for the first one
C1_Witness ==
    /\ Len(chan) >= 2
    /\ lastRecv[2] # <<>>
    /\ chan[1].queue # <<>>

\* C2 as stated: the handler, run on a well-formed LOOKUP_RESULT whose id
\* has a registry entry, sends the records of the frame, once and in order,
\* and each send appends the record to the channel of that entry and
\* changes no other channel.
C2_Original ==
    [][/\ CallbackStep /\ WellFormedReply /\ cur.meta.id \in DOMAIN Registry
          => /\ loopPc' = "send" /\ chan' = chan
             /\ cur'.to = Registry[cur.meta.id]
             /\ cur'.left = MetaRecords(cur.meta)
       /\ RecordSendStep => chan' = AfterSendAlways /\ SendsOn]_vars

\* C2: the handler, run on a well-formed LOOKUP_RESULT whose id has a
\* registry entry while the GNS value is alive, sends the records of the
\* frame, once and in order; each send appends the record to the channel
\* of that entry, unless its Receiver has been dropped, in which case the
\* record is discarded, and changes no other channel.  With the GNS value
\* dropped the handler sends nothing and returns Shutdown.
C2_DeliveredOnce ==
    [][/\ CallbackStep /\ WellFormedReply /\ cur.meta.id \in DOMAIN Registry
          => /\ chan' = chan
             /\ IF gnsAlive
                THEN /\ loopPc' = "send"
                     /\ cur'.to = Registry[cur.meta.id]
                     /\ cur'.left = MetaRecords(cur.meta)
                ELSE loopPc' = "return" /\ cur'.result = "Shutdown"
       /\ RecordSendStep => chan' = AfterSend /\ SendsOn]_vars

\* the two records of one frame are all that is queued on a live channel
\* while a second lookup is registered
C2_Witness ==
    \E h \in DOMAIN chan : \E no \in 1..nsent :
        /\ chan[h].rx
        /\ chan[h].queue = <<RecordValue(chan[h].id, no, 1), RecordValue(chan[h].id, no, 2)>>
        /\ Len(chan) >= 2

\* C3: when the handler runs on a LOOKUP_RESULT for an id whose request the
\* service had received before it sent the frame, the lookup of that id in
\* the handles map does not come back empty.
C3_RegisteredBeforeReply ==
    (loopPc = "callback" /\ cur.meta.kind = "reply" /\ cur.meta.sol)
        => ~Handler(cur.tpe, cur.mr, lookup_q, gnsAlive, handles).miss

\* the handler is about to run on a solicited reply whose registration is
\* still queued in the registration channel
C3_Witness ==
    /\ loopPc = "callback" /\ cur.meta.kind = "reply" /\ cur.meta.sol
    /\ gnsAlive
    /\ cur.meta.id \notin DOMAIN handles
    /\ \E k \in DOMAIN lookup_q : lookup_q[k][1] = cur.meta.id

\* the concatenation of the frames of a sequence of frame descriptions
RECURSIVE FramesBytes(_)
FramesBytes(metas) == IF metas = <<>> THEN <<>>
                      ELSE FrameBytes(Head(metas)) \o FramesBytes(Tail(metas))

\* at all times the unread bytes are exactly the frames the service sent and
\* the loop has not read, and the frame handed to the handler is, byte for
\* byte, the frame the service sent at that position
FrameBoundaries ==
    /\ [](wire = FramesBytes(pending))
    /\ [](loopPc = "callback"
          => write_message(4 + Len(cur.mr), cur.tpe, cur.mr) = FrameBytes(cur.meta))

\* cur is a LOOKUP_RESULT whose id has no registry entry
UnknownIdReply == cur.meta.kind = "reply" /\ cur.meta.id \notin DOMAIN Registry

\* C4 as stated: the handler run on a LOOKUP_RESULT whose id has no registry
\* entry changes no channel and returns Continue, on which the loop goes to
\* its next read; and the frames are cut at their boundaries.
C4_Original ==
    /\ [][CallbackStep /\ UnknownIdReply
          => chan' = chan /\ loopPc' = "return" /\ cur'.result = "Continue"]_vars
    /\ [][ReturnStep /\ ResultReturned = "Continue" => GoesOn]_vars
    /\ FrameBoundaries

\* C4: the handler run on a LOOKUP_RESULT whose id has no registry entry
\* changes no channel; it returns Continue, on which the loop goes to its
\* next read, if lookup_tx exists when it drains the registrations, and
\* Shutdown, on which the loop ends, if the GNS value has been dropped; and
\* the frames are cut at their boundaries.
C4_UnknownIdDropped ==
    /\ [][CallbackStep /\ UnknownIdReply
          => /\ chan' = chan /\ loopPc' = "return"
             /\ cur'.result = (IF gnsAlive THEN "Continue" ELSE "Shutdown")]_vars
    /\ [][ReturnStep /\ UnknownIdReply
          => /\ ResultReturned \in {"Continue", "Shutdown"}
             /\ IF ResultReturned = "Continue" THEN GoesOn ELSE EndsLoop]_vars
    /\ FrameBoundaries

\* the first frame had an id nobody had registered, and the records of the
\* second frame are queued on a channel
C4_Witness ==
    /\ missNo = 1
    /\ \E h \in DOMAIN chan :
           chan[h].queue = <<RecordValue(chan[h].id, 2, 1), RecordValue(chan[h].id, 2, 2)>>

\* record r was emitted by the service before record q: in an earlier
\* frame, or earlier in the same frame
EmittedBefore(r, q) ==
    \/ r.buff[2] < q.buff[2]
    \/ r.buff[2] = q.buff[2] /\ r.buff[3] < q.buff[3]

\* C5: for every handle, the record recv returned last and the records
\* queued behind it are in the order the service emitted them, across
\* frames and within a frame; and recv returns the head of the queue.
C5_OrderPreserved ==
    /\ [](\A h \in DOMAIN chan : \A k \in 1..(Len(Seen(h)) - 1) :
              EmittedBefore(Seen(h)[k], Seen(h)[k + 1]))
    /\ [][\A h \in DOMAIN lastRecv :
              (h \in DOMAIN lastRecv' /\ lastRecv'[h] # lastRecv[h])
                  => /\ chan[h].queue # <<>>
                     /\ lastRecv'[h] = <<Head(chan[h].queue)>>
                     /\ chan'[h].queue = Tail(chan[h].queue)]_vars

\* a handle has received the second record of one frame and the two records
\* of a later frame are queued behind it
C5_Witness ==
    \E h \in DOMAIN chan :
        /\ lastRecv[h] # <<>> /\ lastRecv[h][1].buff[3] = 2
        /\ Len(chan[h].queue) = 2
        /\ chan[h].queue[1].buff[2] > lastRecv[h][1].buff[2]

\* the caller holds the handle of the latest lookup and may call recv on it
CanCallRecv ==
    /\ gnsAlive /\ fg.pc = "idle" /\ chan # <<>>
    /\ chan[Len(chan)].rx

\* C6: recv on a handle with a queued record returns the head of the queue,
\* also after the loop has exited; with nothing queued it blocks while the
\* loop runs, and panics once the loop has exited.
C6_RecvBlocksOrPanics ==
    /\ [](CanCallRecv /\ chan[Len(chan)].queue = <<>> /\ loopPc # "exited"
          => ~ENABLED Recv)
    /\ [](CanCallRecv /\ (chan[Len(chan)].queue # <<>> \/ loopPc = "exited")
          => ENABLED Recv)
    /\ [][CanCallRecv /\ Len(lastRecv') = Len(lastRecv)
          /\ (lastRecv' # lastRecv \/ fg'.pc = "panicked")
          => LET h == Len(chan) IN
             IF chan[h].queue # <<>>
             THEN /\ lastRecv'[h] = <<Head(chan[h].queue)>>
                  /\ chan'[h].queue = Tail(chan[h].queue)
                  /\ fg'.pc = "idle" /\ ret' = ret
             ELSE loopPc = "exited" /\ ret' = "recv panic"]_vars

\* a handle that received a record after the loop had exited has then
\* panicked in recv
C6_Witness ==
    /\ ret = "recv panic"
    /\ chan # <<>> /\ lastRecv[Len(chan)] # <<>>

\* C7 as stated: no call of GNS::lookup ends in a panic.
C7_LookupNeverPanics == ret # "panic"

\* C8 as stated: no call of get_default_ego ends in a panic.
C8_GetDefaultEgoNeverPanics == idRet.res # "panic"

\* C9: once the GNS value is dropped, and already while its last field is
\* yet to be dropped, the read direction is shut down, and the loop thread
\* exits.
C9_LoopExitsAfterDrop ==
    /\ []((~gnsAlive \/ fg.pc = "drop") => readShut)
    /\ ((~gnsAlive \/ fg.pc = "drop") ~> loopPc = "exited")

\* the loop has exited after a drop although the service neither sent a
\* frame nor closed the connection
C9_Witness ==
    /\ ~gnsAlive /\ loopPc = "exited"
    /\ nsent = 0 /\ ~svcClosed

\* C10: when the handler has returned Reconnect or Shutdown, or
\* read_message an error, the thread returns without reading a byte, and
\* the loop is over: the thread takes no step, reads no byte and never runs
\* the handler; each of the three ends the loop in the same state; after
\* Continue the loop is at its next read.
C10_LoopEndsForGood ==
    /\ [](loopPc = "exited"
          => /\ ~ENABLED LoopRead /\ ~ENABLED LoopCallback
             /\ ~ENABLED HandlerSend /\ ~ENABLED LoopReturn)
    /\ [][loopPc = "exited"
          => /\ loopPc' = "exited" /\ wire' = wire /\ pending' = pending
             /\ cur' = cur /\ handles' = handles /\ lookup_q' = lookup_q]_vars
    /\ [][ReturnStep
          => /\ wire' = wire /\ pending' = pending
             /\ IF ResultReturned = "Continue" THEN loopPc' = "read"
                ELSE /\ ResultReturned \in {"Reconnect", "Shutdown", "ReadError"}
                     /\ loopPc' = "exited" /\ cur' = NoFrame
                     /\ handles' = EmptyMap /\ lookup_q' = <<>>]_vars
    /\ [][(loopPc # "read" /\ loopPc # "return" /\ loopPc' = "return")
          => (cur'.result \in {"Continue", "Reconnect", "Shutdown"})]_vars
    /\ [][loopPc = "read" /\ loopPc' # "read"
          => IF read_message(wire, svcClosed \/ readShut).res = "Ok"
             THEN loopPc' = "callback"
             ELSE loopPc' = "return" /\ cur'.result = "ReadError"]_vars

\* the loop has ended while the connection is open and a frame is unread
C10_Witness ==
    /\ loopPc = "exited"
    /\ wire # <<>> /\ ~svcClosed /\ ~readShut


\* C11 as stated: the id a lookup allocates is above the id of the lookup
\* before it and has no entry in the registry.
C11_IdsIncreaseAndFresh ==
    [][aCount' = aCount + 1
       => /\ ~Registered(aLookupId)
          /\ (aPrev # <<>> => U32Less(aPrev, aLookupId))]_vars

-----------------------------------------------------------------------------
(* The bootstrap of the identity client (src/identity/mod.rs).             *)

\* IdentityService::connect has returned Ok and no query was made yet
ConnectReturned == idPc = "ready" /\ idRet = [res |-> "Ok", ego |-> <<>>]

\* the frames of the service that are IDENTITY_UPDATE records with flag 0
IsRecord(f) == \E k \in 1..2, n \in {<<97>>, <<98>>} : f = UpdateFrame(k, n)
RecordOf(f) ==
    CHOOSE r \in (1..2) \X {<<97>>, <<98>>} : f = UpdateFrame(r[1], r[2])
Ego(f) == [pk |-> KeyBytes(RecordOf(f)[1]), name |-> RecordOf(f)[2]]

\* the reply stream starts with k records followed by a terminal frame
Shape(k) ==
    /\ k + 1 <= Len(idLog)
    /\ \A i \in 1..k : IsRecord(idLog[i])
    /\ idLog[k + 1] = EndOfListFrame

RECURSIVE Concat(_)
Concat(fs) == IF fs = <<>> THEN <<>> ELSE Head(fs) \o Concat(Tail(fs))

\* the table after inserting the records of the frames fs in order
RECURSIVE TableOf(_)
TableOf(fs) ==
    IF fs = <<>> THEN EmptyMap
    ELSE LET e == Ego(fs[Len(fs)]) IN
         Insert(TableOf(SubSeq(fs, 1, Len(fs) - 1)), EgoId(e.pk), e)

DistinctKeys(fs) ==
    \A i, j \in DOMAIN fs : i # j => Ego(fs[i]).pk # Ego(fs[j]).pk

StartFrame == write_message(4, GNUNET_MESSAGE_TYPE_IDENTITY_START, <<>>)

\* what C12 says of the frames written and consumed, for a stream of shape k
BootstrapFraming(k) ==
    /\ idPc = "bootstrap" => idOut = StartFrame /\ idRead <= k
    /\ idPc = "failed" => idRet.res = "Io" /\ idRead = 0 /\ idOut = <<>>
    /\ ConnectReturned
       => /\ idOut = StartFrame
          /\ idRead = k + 1
          /\ idWire = Concat(SubSeq(idLog, k + 2, Len(idLog)))

\* C12 as stated: after k records and a terminal frame, connect has written
\* one START frame, consumed exactly the k + 1 frames, read nothing after
\* the terminal frame, and its table holds exactly the k records.
C12_Original ==
    \A k \in 0..MaxIdFrames :
        Shape(k) =>
            /\ BootstrapFraming(k)
            /\ ConnectReturned
               => /\ Cardinality(DOMAIN egos) = k
                  /\ \A i \in 1..k : \E id \in DOMAIN egos : egos[id] = Ego(idLog[i])

\* C12 amended: as C12, but the table holds one entry for each distinct key
\* among the k records, the last record of a key; it holds exactly the k
\* records when their keys are pairwise distinct.
C12_TableByKey ==
    \A k \in 0..MaxIdFrames :
        Shape(k) =>
            /\ BootstrapFraming(k)
            /\ ConnectReturned
               => /\ egos = TableOf(SubSeq(idLog, 1, k))
                  /\ DistinctKeys(SubSeq(idLog, 1, k))
                     => /\ Cardinality(DOMAIN egos) = k
                        /\ \A i \in 1..k :
                              \E id \in DOMAIN egos : egos[id] = Ego(idLog[i])

\* connect returned after two records with distinct keys and the terminal
\* frame
C12_Witness ==
    /\ ConnectReturned /\ Shape(2) /\ DistinctKeys(SubSeq(idLog, 1, 2))
    /\ idRead = 3 /\ Cardinality(DOMAIN egos) = 2

-----------------------------------------------------------------------------
(* One query of the identity client (src/identity/mod.rs).                 *)

\* a step in which get_default_ego writes its request
GetDefaultCall == idPc = "ready" /\ idPc' = "called"
\* a step in which get_default_ego returns without having written its
\* request: the name does not fit a frame, or the write failed
GetDefaultRefused ==
    /\ idPc = "ready" /\ idPc' = "ready" /\ idRet' # idRet
    /\ idRet'.res \in {"NameTooLong", "Io"}
\* a step in which get_default_ego returns after reading a whole frame
GetDefaultReturn == idPc = "called" /\ idPc' # "called" /\ idRet'.res # "ReadMessage"

\* the frame the next read_message of the identity client starts at
NextReply == idLog[idRead + 1]
FrameType(f) == FromBE(SubSeq(f, 3, 4))
\* the message of a RESULT_CODE frame: the bytes after the code up to the NUL
ResultMessage(f) == UntilNul(Drop(f, 8))
NulTerminated(f) == \E i \in 9..Len(f) : f[i] = 0

\* what C14 says of the frames written and consumed by one call
RoundTrip ==
    /\ GetDefaultCall => idOut' = idOut \o GetDefaultRequest(idName')
    /\ idPc = "called" => idOut' = idOut
    /\ GetDefaultRefused => idOut' = idOut /\ idRead' = idRead /\ idWire' = idWire
    /\ GetDefaultReturn
       => /\ idRead' = idRead + 1
          /\ idRead < Len(idLog)
          /\ idWire = NextReply \o idWire'

\* C14: get_default_ego, unless it refuses the name or fails to write and
\* then neither writes nor reads, writes one GET_DEFAULT frame and then
\* consumes one reply frame; a RESULT_CODE reply is never returned as an
\* ego, and one that carries a message (a NUL-terminated UTF-8 string after
\* the code) is returned as ServiceResponse with that message.
C14_ResultCodeIsError ==
    [][/\ RoundTrip
       /\ GetDefaultReturn
          /\ FrameType(NextReply) = GNUNET_MESSAGE_TYPE_IDENTITY_RESULT_CODE
          => /\ idRet'.ego = <<>>
             /\ idRet'.res \in {"ServiceResponse", "MalformedErrorResponse",
                                "Disconnected"}
             /\ NulTerminated(NextReply) /\ IsUtf8(ResultMessage(NextReply))
                => /\ idRet'.res = "ServiceResponse"
                   /\ idRet'.response = ResultMessage(NextReply)]_vars

\* a query returned the message "e" of a RESULT_CODE reply
C14_Witness ==
    /\ idPc = "ready" /\ idRet.res = "ServiceResponse"
    /\ idRet.response = <<101>>
    /\ idLog[idRead] = ResultCodeFrame(<<101, 0>>)
    /\ idOut = StartFrame \o GetDefaultRequest(<<97>>)

-----------------------------------------------------------------------------
(* The peer iterator (src/peerinfo/peerinfo.rs).                           *)

\* the INFO frames a peerinfo service sends: a zero word, the identity of
\* the peer and possibly a HELLO
IsInfo(f) == \E k \in 1..2, h \in {<<>>, <<7, 7>>} : f = InfoFrame(0, k, h)
PeerOf(f) == SubSeq(f, 9, 40)

\* the reply stream starts with k INFO frames followed by INFO_END
PeersShape(k) ==
    /\ k + 1 <= Len(pLog)
    /\ \A i \in 1..k : IsInfo(pLog[i])
    /\ pLog[k + 1] = InfoEndFrame

\* C13: after iterate_peers, given k INFO frames followed by INFO_END, the
\* n-th call of next yields the peer of the n-th frame for n <= k and None
\* for n = k + 1; each of these calls consumes one frame, so k + 1 frames
\* are consumed when None is returned.
C13_PeersYieldThenNone ==
    \A k \in 0..MaxPeerFrames :
        PeersShape(k) /\ pPc = "iterating" =>
            /\ pOut = GetAllRequest
            /\ \A n \in 1..Len(pItems) :
                  /\ n <= k => pItems[n] = [item |-> "Ok", err |-> "", peer |-> PeerOf(pLog[n])]
                  /\ n = k + 1 => pItems[n].item = "None"
            /\ Len(pItems) <= k + 1
               => /\ pRead = Len(pItems)
                  /\ pWire = Concat(SubSeq(pLog, pRead + 1, Len(pLog)))

\* two peers were yielded and then None, with three frames consumed
C13_Witness ==
    /\ PeersShape(2) /\ Len(pItems) = 3 /\ pItems[3].item = "None"
    /\ pItems[1].item = "Ok" /\ pItems[2].item = "Ok" /\ pItems[1] # pItems[2]
    /\ pRead = 3

-----------------------------------------------------------------------------
(* The frame codec (src/service/mod.rs).                                   *)

\* a read of the connection returns to the read_message call in progress
ReadReturns == sRd.pc # "idle" /\ sRd' # sRd
\* a step of send
SendStep ==
    /\ msgWriter.st = "open"
    /\ Len(sFrames') = Len(sFrames) + 1 \/ sPc' = "aborted"
LastMsg == sMsgs[Len(sMsgs)]
\* what the call that returns in this step returns
Returns == sMsgs'[Len(sMsgs')]
CallReturns == sRd' = NoRead /\ Len(sMsgs') = Len(sMsgs) + 1

\* every frame sent was filled up to its declared length
AsDeclared == \A n \in DOMAIN sFrames : Len(sFrames[n].v) = sFrames[n].len

\* the bytes of the frames sent and not yet returned by a read_message, and
\* how many bytes the call in progress has taken from the stream
Unreturned ==
    Concat([n \in 1..(Len(sFrames) - Len(sMsgs)) |-> sFrames[Len(sMsgs) + n].v])
UsedByCall ==
    IF sRd.pc = "idle" THEN 0 ELSE (IF sRd.pc = "body" THEN 2 ELSE 0) + Len(sRd.buf)

\* C15: frames written with write_message(len(p) + 4, t), writes of the
\* payload p and send come back from successive read_message calls as (t, p),
\* in the order they were sent: every call that has returned returned the
\* frame at its position, having consumed exactly its bytes; the bytes taken
\* by the call in progress and the unread bytes are the frames not yet
\* returned: the bytes the call in progress has taken, then the unread bytes,
\* then the bytes the peer has still to send back, and a call in progress
\* with no byte to read has blocked.
C15_RoundTrip ==
    sPeer = "echo" /\ AsDeclared =>
        /\ Len(sMsgs) <= Len(sFrames)
        /\ \A n \in DOMAIN sMsgs :
              /\ sMsgs[n].res = "Ok"
              /\ sMsgs[n].tpe = sFrames[n].tpe
              /\ sMsgs[n].mr = Drop(sFrames[n].v, 4)
              /\ sMsgs[n].used = sFrames[n].len
        /\ UsedByCall <= Len(Unreturned)
        /\ sIn \o sEcho = Drop(Unreturned, UsedByCall)
        /\ sRd.pc # "idle"
           => sRd.buf = SubSeq(Unreturned, UsedByCall - Len(sRd.buf) + 1, UsedByCall)
        /\ sRd.pc = "body" => sRd.need + 2 = sFrames[Len(sMsgs) + 1].len
        /\ sRd.pc # "idle" /\ sIn = <<>> => sRd.blocked

\* two frames came back, one with a 256-byte payload and one with type 258
C15_Witness ==
    /\ sPeer = "echo" /\ AsDeclared /\ Len(sMsgs) = 2 /\ sIn = <<>> /\ sEcho = <<>>
    /\ \E n \in 1..2 : Len(sMsgs[n].mr) = 256
    /\ \E n \in 1..2 : sMsgs[n].tpe = 258

\* C16: read_message on a stream whose first two bytes declare a length
\* below 4 returns ShortMessage with that length as soon as it has those two
\* bytes, and has consumed those two bytes only.
C16_ShortMessage ==
    /\ [][(ReadReturns /\ sRd.pc = "len" /\ Len(sRd.buf \o sIn) >= 2
             /\ FromBE(Take(sRd.buf \o sIn, 2)) < 4)
          => /\ CallReturns
             /\ Returns.res = "ShortMessage"
             /\ Returns.len = FromBE(Take(sRd.buf \o sIn, 2))
             /\ Returns.used = 2
             /\ sIn' = Drop(sRd.buf \o sIn, 2)]_vars
    /\ [](\A n \in DOMAIN sMsgs :
             sMsgs[n].res = "ShortMessage" => sMsgs[n].len < 4 /\ sMsgs[n].used = 2)

\* ShortMessage was returned for a declared length of 3 to a call that was
\* waiting for the length, and the byte after the length is still unread
C16_Witness ==
    /\ sMsgs # <<>> /\ LastMsg.res = "ShortMessage" /\ LastMsg.len = 3
    /\ LastMsg.used = 2 /\ LastMsg.blocked /\ Len(sIn) = 1 /\ sEnd = "open"

\* C17: a read_message that finds end-of-input before the declared bytes are
\* there, or before the two length bytes are complete, returns Disconnected,
\* whatever it has consumed of the frame before; no call that returns at
\* end-of-input returns Io.
C17_EofIsDisconnected ==
    /\ [][(ReadReturns /\ sIn = <<>> /\ sEnd = "eof")
          => CallReturns /\ Returns.res = "Disconnected"]_vars
    /\ [](\A n \in DOMAIN sMsgs : sMsgs[n].end = "eof" => sMsgs[n].res # "Io")

\* Disconnected was returned at end-of-input to a call that had consumed the
\* two length bytes and one byte of the body of a frame of 5 bytes and was
\* waiting for the rest when the stream ended
C17_Witness ==
    /\ sMsgs # <<>> /\ LastMsg.res = "Disconnected" /\ LastMsg.end = "eof"
    /\ LastMsg.used = 3 /\ LastMsg.blocked

\* C18 as stated: send transmits the frame when the bytes buffered are as many
\* as the length declared to write_message, and for any other amount it
\* aborts and writes nothing.
C18_SendOnlyDeclared ==
    [][SendStep
       => IF Len(msgWriter.v) = msgWriter.len
          THEN sOut' = sOut \o msgWriter.v /\ sPc' = sPc
          ELSE sOut' = sOut /\ sPc' = "aborted"]_vars

\* C19: nothing reaches the connection before send, and send appends the
\* whole buffer of the one MessageWriter, so the bytes of a frame are
\* contiguous and frames are never interleaved.
C19_FramesContiguous ==
    [][/\ sOut' # sOut
          => /\ msgWriter.st = "open" /\ msgWriter' = NoWriter
             /\ sOut' = sOut \o msgWriter.v
       /\ msgWriter.st = "open" /\ msgWriter'.st = "open"
          => msgWriter'.len = msgWriter.len /\ msgWriter'.tpe = msgWriter.tpe]_vars

\* one frame is on the connection and the payload of a second is buffered
C19_Witness ==
    /\ Len(sFrames) = 1 /\ sOut = sFrames[1].v
    /\ msgWriter.st = "open" /\ msgWriter.n > 0 /\ Len(msgWriter.v) > 4

\* C20: connect returns NotConfigured when the configuration has no UNIXPATH
\* for the service, Io when opening or cloning the stream fails, and
\* otherwise a reader and a writer on the same socket.
C20_ConnectOutcome ==
    sPc \notin {"off", "start"} =>
        /\ sRet.cfg # "Path" => sRet.res = "NotConfigured"
        /\ sRet.cfg = "Path" /\ ~(sRet.connectOk /\ sRet.cloneOk) => sRet.res = "Io"
        /\ sRet.cfg = "Path" /\ sRet.connectOk /\ sRet.cloneOk
           => sRet.res = "Ok" /\ sRet.reader = sRet.writer /\ sRet.reader # 0

\* connect succeeded and a frame sent through the writer came back at the
\* reader
C20_Witness ==
    /\ sRet.res = "Ok" /\ sPeer = "echo" /\ Len(sFrames) = 1
    /\ Len(sMsgs) = 1 /\ sMsgs[1].res = "Ok"

-----------------------------------------------------------------------------
(* Unexpected message types in the synchronous clients.                    *)

\* a step of the bootstrap loop, of Peers::next, that consumes a whole frame
BootstrapReads == idPc = "bootstrap" /\ idRead' = idRead + 1
NextReads == pPc = "iterating" /\ pRead' = pRead + 1
\* the frame the next read_message of the iterator starts at
NextPeerFrame == pLog[pRead + 1]

\* C21: in the bootstrap of the identity client a frame of a type other than
\* IDENTITY_UPDATE makes connect fail with UnexpectedMessageType carrying
\* that type, and Peers::next yields UnexpectedMessageType with the type for
\* a frame that is neither INFO nor INFO_END.
C21_UnexpectedTypeIsError ==
    [][/\ BootstrapReads
          /\ FrameType(NextReply) # GNUNET_MESSAGE_TYPE_IDENTITY_UPDATE
          => /\ idPc' = "failed"
             /\ idRet' = [res |-> "UnexpectedMessageType", ego |-> <<>>,
                          ty |-> FrameType(NextReply)]
             /\ egos' = egos
       /\ NextReads
          /\ FrameType(NextPeerFrame) \notin {GNUNET_MESSAGE_TYPE_PEERINFO_INFO,
                                               GNUNET_MESSAGE_TYPE_PEERINFO_INFO_END}
          => pItems'[Len(pItems')] =
                [item |-> "Err", err |-> "UnexpectedMessageType", peer |-> <<>>,
                 ty |-> FrameType(NextPeerFrame)]]_vars

\* connect failed on a RESULT_CODE frame received after one record
C21_Witness ==
    /\ idPc = "failed" /\ idRet.res = "UnexpectedMessageType"
    /\ idRet.ty = GNUNET_MESSAGE_TYPE_IDENTITY_RESULT_CODE
    /\ idRead = 2 /\ IsRecord(idLog[1])

-----------------------------------------------------------------------------
(* The lookup round trip (src/gns/mod.rs).                                 *)

\* frame number no of the service is unread and is an answer to the request
\* of id 0: a LOOKUP_RESULT with that id and one record, sent after the
\* request was written
Answer(no) ==
    \E i \in DOMAIN pending :
        /\ pending[i].no = no /\ pending[i].kind = "reply" /\ pending[i].sol
        /\ pending[i].id = 0 /\ pending[i].n = 1 /\ pending[i].rd_count = 1

\* no record of another frame stands between frame no and the recv of the
\* function: the handle has seen nothing, and no frame of the request's id
\* is in the hands of the loop or unread ahead of frame no
FirstForHandle(no) ==
    /\ Seen(1) = <<>>
    /\ ~(cur.meta.kind = "reply" /\ cur.meta.id = 0)
    /\ \A i \in DOMAIN pending : pending[i].id = 0 => pending[i].no >= no

\* gns::lookup has returned the record of frame no: its recv returned that
\* record, and the handle and the GNS value were dropped
Returned(no) ==
    /\ chan # <<>> /\ ret = "Handle"
    /\ lastRecv[1] = <<RecordValue(0, no, 1)>>
    /\ ~chan[1].rx /\ ~gnsAlive

-----------------------------------------------------------------------------
(* The life of the registry (src/gns/mod.rs).                              *)

\* C23: as long as the dispatch loop lives no entry leaves the handles map:
\* the set of its ids only grows and an entry keeps its sender, also when the
\* LookupHandle of the id has been dropped.
C23_RegistryOnlyGrows ==
    [][loopPc' # "exited"
       => \A id \in DOMAIN handles :
             id \in DOMAIN handles' /\ handles'[id] = handles[id]]_vars

\* the map holds two entries, the handle of one of them was dropped, and the
\* loop has handled a frame since
C23_Witness ==
    /\ loopPc = "read" /\ Cardinality(DOMAIN handles) = 2
    /\ \E id \in DOMAIN handles : ~chan[handles[id]].rx
    /\ nsent = 2 /\ wire = <<>>

\* the characters of s are all of the canonical alphabet
Canonical(s) == \A k \in 1..Len(s) : \E j \in 1..32 : ENCODE_CHARS[j] = s[k]

\* a decode of a canonical string into a buffer of (len * 5) / 8 bytes has
\* been accepted and its bytes have been encoded
DecodedAndEncoded ==
    /\ fnName = "crockford"
    /\ fnOut.step = 2
    /\ Canonical(fnIn.enc)
    /\ fnIn.len = (Len(fnIn.enc) * 5) \div 8

\* the number of characters crockford_encode writes for n bytes
EncodedLen(n) == (n * 8 + 4) \div 5

\* C24 as stated: every canonical string that crockford_decode accepts into
\* a buffer of (len * 5) / 8 bytes is what crockford_encode gives for the
\* decoded bytes.
C24_Original == DecodedAndEncoded => fnOut.enc = fnIn.enc

\* C24: every canonical string that crockford_decode accepts into a buffer
\* of (len * 5) / 8 bytes, and whose length is the length the encoder writes
\* for that many bytes, is what crockford_encode gives for the decoded bytes.
\* The decoder returns at the character that completes the last byte, so a
\* string of 3, 6 or 9 characters is accepted with its last character unread
\* (or zero) and encodes to a string one shorter.
C24_DecodeEncode ==
    (DecodedAndEncoded /\ Len(fnIn.enc) = EncodedLen(fnIn.len))
        => fnOut.enc = fnIn.enc

\* a string of 8 characters, which the loop of the decoder reads to its end,
\* was decoded into 5 bytes and encoded back
C24_Witness ==
    /\ DecodedAndEncoded
    /\ Len(fnIn.enc) = 8
    /\ fnOut.dec.dec = <<255, 255, 255, 255, 255>>
    /\ fnOut.enc = fnIn.enc

\* from_str has returned
FromStrReturned == fnName = "from_str" /\ fnOut.step = 1

\* the words of the input up to the word n are separated by spaces
Separated(n) == \A k \in 1..(n - 1) : fnIn.gaps[k + 1] >= 1

\* the first n words of the input are pairs of an amount and a known unit
Pairs(n) ==
    /\ n % 2 = 0
    /\ n <= Len(fnIn.toks)
    /\ \A k \in 1..n :
           fnIn.toks[k].kind = (IF k % 2 = 1 THEN "amount" ELSE "unit")

\* the sum over the pairs of amount times multiplier, as a number
RECURSIVE SumOfPairs(_, _)
SumOfPairs(toks, i) ==
    IF i > Len(toks) THEN <<>>
    ELSE BigAdd(BigMul(toks[i].val, toks[i + 1].val), SumOfPairs(toks, i + 2))

\* the input is blank, or after some pairs comes a number with no unit
\* after it, a unit where a number is due, or an unknown unit
Faulty ==
    \/ Len(fnIn.toks) = 0
    \/ \E n \in 0..(Len(fnIn.toks) - 1) :
          /\ Pairs(n)
          /\ Separated(n + 2)
          /\ \/ fnIn.toks[n + 1].kind # "amount"
             \/ n + 1 = Len(fnIn.toks)
             \/ fnIn.toks[n + 2].kind # "unit"

IsErr(r) == r.res \in {"EmptyString", "ParseInt", "MissingUnit",
                           "NoSuchUnit"}

\* C25: from_str on pairs of an amount and a unit separated by spaces
\* returns the sum of amount times multiplier, and it returns an error for a
\* blank string, a number without unit, a unit without number and an unknown
\* unit.
C25_FromStrSum ==
    FromStrReturned =>
        /\ (Len(fnIn.toks) > 0 /\ Pairs(Len(fnIn.toks))
               /\ Separated(Len(fnIn.toks)))
            => fnOut.ret = [res |-> "Ok", micros |-> SumOfPairs(fnIn.toks, 1)]
        /\ Faulty => IsErr(fnOut.ret)

\* a step in which registrations enter the handles map
DrainStep == handles' # handles /\ handles' # EmptyMap

\* a step in which records are put on a delivery channel
DeliverStep ==
    \E h \in DOMAIN chan : Len(chan'[h].queue) > Len(chan[h].queue)

\* the step in which read_message returns a frame to the loop
FrameReadStep == loopPc = "read" /\ loopPc' = "callback"

\* C26 as stated: the registrations are drained before the frame read of the
\* iteration, that is while the loop has not yet read the frame.
C26_Original == [][DrainStep => loopPc = "read"]_vars

\* C26: in each iteration of the dispatch loop the blocking frame read comes
\* first and leaves the registrations alone; the drain is the first thing
\* the handler does with the frame that was read, so that every
\* registration pushed up to the drain is in the map when the handler goes
\* on to its sends or returns Continue; records are delivered only by the
\* sends of the handler, after the read.
C26_ReadThenDrain ==
    [][/\ FrameReadStep => handles' = handles /\ lookup_q' = lookup_q
       /\ DrainStep => loopPc = "callback" /\ cur # NoFrame
       /\ DeliverStep => loopPc = "send" /\ cur # NoFrame
       /\ CallbackStep
            => /\ lookup_q' = <<>>
               /\ \A k \in 1..Len(lookup_q) :
                      /\ lookup_q[k][1] \in DOMAIN handles'
                      /\ \A j \in DOMAIN handles : j \in DOMAIN handles']_vars

\* a frame was read while a registration was queued, the handler then put
\* the registration into the map and delivered the records of the frame
C26_Witness ==
    /\ loopPc = "read"
    /\ lookup_q = <<>>
    /\ \E h \in DOMAIN chan :
           /\ chan[h].queue # <<>>
           /\ chan[h].id \in DOMAIN handles
           /\ handles[chan[h].id] = h

\* C27 as stated: whenever recv can be called on a handle, a sender of the
\* handle's channel still exists, and no call of recv ends in the panic of
\* its unwrap.
C27_SenderOutlivesHandle ==
    /\ CanCallRecv => SenderAlive(Len(chan))
    /\ ret # "recv panic"

\* a step of the caller's thread: of lookup, of recv, or a drop
ForegroundStep ==
    \/ fg' # fg \/ ret' # ret \/ lookup_id' # lookup_id
    \/ lastRecv' # lastRecv \/ gnsAlive' # gnsAlive
    \/ \E h \in DOMAIN chan : chan'[h].rx # chan[h].rx

\* C28: the handles map changes only in steps of the loop thread; every
\* entry that enters it was taken from the registration channel; the steps
\* of lookup and of the other foreground operations leave it as it is, and
\* a lookup touches the registration channel only by pushing one
\* registration, that of its own id and sender.
C28_MapOnlyByLoop ==
    [][/\ handles' # handles => loopPc' # loopPc
       /\ ForegroundStep => handles' = handles /\ loopPc' = loopPc
       /\ \A id \in DOMAIN handles' :
              (id \notin DOMAIN handles \/ handles'[id] # handles[id])
                  => \E k \in DOMAIN lookup_q : lookup_q[k] = <<id, handles'[id]>>
       /\ ForegroundStep /\ lookup_q' # lookup_q
              => \E h \in DOMAIN chan' :
                     /\ lookup_q' = Append(lookup_q, <<chan'[h].id, h>>)
                     /\ fg' # fg]_vars

\* two lookups have pushed their registrations and returned, and the loop
\* has put both into the map
C28_Witness ==
    /\ ret = "Handle" /\ fg.pc = "idle"
    /\ lookup_q = <<>>
    /\ \A h \in DOMAIN chan : chan[h].id \in DOMAIN handles /\ handles[chan[h].id] = h
    /\ Len(chan) = 2

\* C29 as stated: every request the bindings build declares 4 plus the
\* number of payload bytes written, and the assertion of send holds on it.
C29_DeclaredIsWritten ==
    /\ (fnName = "request" /\ fnOut.step = 1)
           => fnOut.w.len = Len(fnOut.w.v) /\ send_assert(fnOut.w)
    /\ (fnName = "request" /\ fnOut.step = 2) => fnOut.res # "panic"

\* the handler is run on a frame whose type is not LOOKUP_RESULT
OtherTypeStep ==
    CallbackStep /\ cur.tpe # GNUNET_MESSAGE_TYPE_GNS_LOOKUP_RESULT

\* once ended the loop stays ended, no frame is handed to the handler and no
\* channel gets a further record
StaysEnded ==
    [][loopPc = "exited"
       => /\ loopPc' = "exited" /\ cur' = cur /\ wire' = wire
          /\ \A h \in DOMAIN chan :
                 Len(chan'[h].queue) <= Len(chan[h].queue)]_vars

\* C30 as stated: the handler run on a frame of another type than
\* LOOKUP_RESULT returns Reconnect and puts no record on any channel, and
\* the loop ends on that result and stays ended.
C30_Original ==
    /\ [][OtherTypeStep
          => /\ loopPc' = "return" /\ cur'.result = "Reconnect"
             /\ chan' = chan]_vars
    /\ [][ReturnStep /\ ResultReturned = "Reconnect" => EndsLoop]_vars
    /\ StaysEnded

\* C30: the handler run on a frame of another type than LOOKUP_RESULT
\* returns Reconnect if lookup_tx exists when it drains the registrations,
\* and Shutdown if the GNS value has been dropped; it puts no record on any
\* channel, and the loop ends on either result and stays ended.
C30_OtherTypeEndsLoop ==
    /\ [][OtherTypeStep
          => /\ Handler(cur.tpe, cur.mr, lookup_q, gnsAlive, handles).result
                    = (IF gnsAlive THEN "Reconnect" ELSE "Shutdown")
             /\ loopPc' = "return"
             /\ cur'.result = (IF gnsAlive THEN "Reconnect" ELSE "Shutdown")
             /\ chan' = chan]_vars
    /\ [][ReturnStep /\ ResultReturned \in {"Reconnect", "Shutdown"}
          => EndsLoop]_vars
    /\ StaysEnded

\* a frame of another type has ended the loop while a handle was
\* outstanding, the connection is open and a later frame is unread
C30_Witness ==
    /\ exitBy = "other"
    /\ gnsAlive /\ wire # <<>> /\ ~svcClosed /\ ~readShut
    /\ \E h \in DOMAIN chan : chan[h].rx

\* cur is a LOOKUP_RESULT that announces more records than it holds
TruncatedReply == cur.meta.kind = "reply" /\ cur.meta.n < cur.meta.rd_count

\* C31: the handler, run on a LOOKUP_RESULT for a registered id that ends
\* after j of the announced records, sends those j records, in order, to
\* the channel of the id, where each is queued if the handle is alive, and
\* after the last of them it returns Reconnect, on which the loop ends.
C31_PartialDelivery ==
    [][/\ CallbackStep /\ TruncatedReply /\ gnsAlive
          /\ cur.meta.id \in DOMAIN Registry
          => /\ loopPc' = "send" /\ chan' = chan
             /\ cur'.to = Registry[cur.meta.id]
             /\ cur'.left = MetaRecords(cur.meta)
             /\ cur'.result = "Reconnect"
       /\ RecordSendStep /\ TruncatedReply
          => /\ chan' = AfterSend
             /\ Len(cur.left) = 1
                => loopPc' = "return" /\ cur'.result = "Reconnect"
       /\ ReturnStep /\ TruncatedReply /\ ResultReturned = "Reconnect"
          => EndsLoop /\ exitBy' = "reply"]_vars

\* the loop has ended on a reply and the one record the reply held before
\* it broke off is queued on the live handle of its id
C31_Witness ==
    /\ exitBy = "reply"
    /\ \E h \in DOMAIN chan : \E no \in 1..nsent :
           /\ chan[h].rx
           /\ chan[h].queue = <<RecordValue(chan[h].id, no, 1)>>

\* C32: a send of the handler to a handle that has been dropped changes no
\* channel and does not end the handler: on a well-formed LOOKUP_RESULT for
\* a registered id it goes on to the next record and after the last one
\* returns Continue, whether the sends failed or not, on which the loop
\* goes to its next read; so a
\* later reply for a registered id is sent to its handle whatever was
\* handled before it.
C32_FailedSendGoesOn ==
    [][/\ RecordSendStep /\ WellFormedReply
          => /\ ~chan[cur.to].rx => chan' = chan
             /\ IF Len(cur.left) > 1 THEN loopPc' = "send"
                ELSE loopPc' = "return" /\ cur'.result = "Continue"
       /\ ReturnStep /\ WellFormedReply /\ ResultReturned = "Continue" => GoesOn
       /\ CallbackStep /\ WellFormedReply /\ gnsAlive
          /\ cur.meta.id \in DOMAIN Registry
          => loopPc' = "send" /\ cur'.left = MetaRecords(cur.meta)]_vars

\* the first frame was a reply for the id of the first handle, which had
\* been dropped, and nothing of it was kept; the records of the second
\* frame are queued on the second handle
C32_Witness ==
    /\ loopPc = "read" /\ nsent = 2 /\ pending = <<>> /\ missNo = 0
    /\ Len(chan) = 2
    /\ ~chan[1].rx /\ chan[1].queue = <<>>
    /\ lastRecv = << <<>>, <<>> >>
    /\ chan[2].rx
    /\ chan[2].queue = <<RecordValue(chan[2].id, 2, 1), RecordValue(chan[2].id, 2, 2)>>

\* C33: the handler started after the GNS value was dropped returns
\* Shutdown whatever the frame is, with the registrations that were still
\* queued inserted into the map first; it puts no record on any channel and
\* the loop ends on that result.
C33_ShutdownBeforeFrame ==
    /\ [][CallbackStep /\ ~gnsAlive
          => LET r == Handler(cur.tpe, cur.mr, lookup_q, gnsAlive, handles) IN
             /\ r.result = "Shutdown"
             /\ r.recs = <<>>
             /\ \A k \in 1..Len(lookup_q) :
                    /\ lookup_q[k][1] \in DOMAIN r.handles
                    /\ r.handles[lookup_q[k][1]] = lookup_q[k][2]
             /\ chan' = chan /\ handles' = r.handles
             /\ loopPc' = "return" /\ cur'.result = "Shutdown"]_vars
    /\ [][ReturnStep /\ ResultReturned = "Shutdown"
          => EndsLoop /\ exitBy' = "shutdown"]_vars

\* the only frame the loop ever handled came after the GNS value was
\* dropped: the registration of the finished lookup was still queued, the
\* handler returned Shutdown and nothing was delivered
C33_Witness ==
    /\ exitBy = "shutdown" /\ ~gnsAlive
    /\ nsent = 1 /\ pending = <<>> /\ wire = <<>>
    /\ Len(chan) = 1 /\ out # <<>>
    /\ chan[1].queue = <<>> /\ lastRecv[1] = <<>>

\* C34: a GNS::lookup step whose name is longer than
\* GNUNET_DNSPARSER_MAX_NAME_LENGTH returns NameTooLong and changes neither
\* the id counter, nor the registration channel, nor the result channels,
\* nor the bytes written to or readable from the transport.
C34_NameTooLongFrame ==
    [][(\E name \in Names :
            /\ Len(name) > GNUNET_DNSPARSER_MAX_NAME_LENGTH
            /\ LookupStart(name))
       => /\ ret' = "NameTooLong"
          /\ fg' = fg
          /\ UNCHANGED <<lookup_id, lookup_q, chan, out, wire, handles>>]_vars

\* a too-long lookup made after a good one: the counter still is 1, the
\* only channel is that of lookup 0 and the only bytes written are its
\* request
C34_Witness ==
    /\ ret = "NameTooLong" /\ gnsAlive /\ fg.pc = "idle"
    /\ lookup_id = 1 /\ Len(chan) = 1 /\ chan[1].id = 0
    /\ out = LookupRequest(0, ShortName)
    /\ Len(lookup_q) + Cardinality(DOMAIN handles) = 1

-----------------------------------------------------------------------------
(* The checks of get_default_ego on a SET_DEFAULT reply.                   *)

\* the fields of a SET_DEFAULT frame f as the service laid them out: the
\* name length, the flag word, and the name of the declared length with its
\* terminator after the 32 bytes of the key
HasHeader(f) == Len(f) >= 8
NameLenOf(f) == FromBE(SubSeq(f, 5, 6))
FlagOf(f) == FromBE(SubSeq(f, 7, 8))
HasName(f) ==
    /\ HasHeader(f) /\ NameLenOf(f) > 0
    /\ Len(f) >= 40 + NameLenOf(f)
    /\ f[40 + NameLenOf(f)] = 0
    /\ \A i \in 41..(39 + NameLenOf(f)) : f[i] # 0
    /\ IsUtf8(SubSeq(f, 41, 39 + NameLenOf(f)))
NameOf(f) == SubSeq(f, 41, 39 + NameLenOf(f))

\* C35: get_default_ego returns an ego only on a SET_DEFAULT reply with a
\* nonzero name length, a zero flag word and the requested name; a
\* SET_DEFAULT reply with a zero name length, with a nonzero flag word or
\* with another name, and a reply of a type other than SET_DEFAULT and
\* RESULT_CODE, is returned as InvalidResponse.
C35_RepliesChecked ==
    [][GetDefaultReturn
       => LET f == NextReply
              tpe == FrameType(f)
          IN  /\ idRet'.res = "Ok"
                 => /\ tpe = GNUNET_MESSAGE_TYPE_IDENTITY_SET_DEFAULT
                    /\ HasName(f) /\ FlagOf(f) = 0 /\ NameOf(f) = idName
                    /\ idRet'.ego # <<>>
              /\ idRet'.ego # <<>> => idRet'.res = "Ok"
              /\ tpe = GNUNET_MESSAGE_TYPE_IDENTITY_SET_DEFAULT /\ HasHeader(f)
                 /\ \/ NameLenOf(f) = 0
                    \/ FlagOf(f) # 0
                    \/ HasName(f) /\ NameOf(f) # idName
                 => idRet'.res = "InvalidResponse"
              /\ tpe \notin {GNUNET_MESSAGE_TYPE_IDENTITY_SET_DEFAULT,
                             GNUNET_MESSAGE_TYPE_IDENTITY_RESULT_CODE}
                 => idRet'.res = "InvalidResponse"]_vars

\* the ego with key 1 is in the table and the reply names it, but under the
\* name "b" where "a" was requested: the query returned InvalidResponse
C35_Witness ==
    /\ idPc = "ready" /\ idRet.res = "InvalidResponse" /\ idRet.ego = <<>>
    /\ idName = <<97>>
    /\ idRead = 3 /\ idLog[3] = SetDefaultFrame(2, 0, 1, <<98, 0>>)
    /\ EgoId(KeyBytes(1)) \in DOMAIN egos

-----------------------------------------------------------------------------
(* The end of the peer iterator.                                           *)

\* a step that is one call of Peers::next, and the item it returned
NextCall == Len(pItems') = Len(pItems) + 1
NextItem == pItems'[Len(pItems')]
\* the call read a whole frame, which is the next one the service sent
ReadFrame == pRead' = pRead + 1
\* the service sent INFO_END among the frames not read yet
EndPending == \E i \in (pRead + 1)..Len(pLog) : pLog[i] = InfoEndFrame

\* C36: a call of Peers::next returns None exactly when the frame it read
\* is INFO_END; once the service has closed the connection with no INFO_END
\* left to read no call returns None, and once the frames it sent are used
\* up every call returns Some(Err(..)) and the iterator can be called again.
C36_NoneOnlyOnInfoEnd ==
    [][NextCall
       => /\ NextItem.item = "None"
             <=> ReadFrame /\ pLog[pRead + 1] = InfoEndFrame
          /\ pClosed /\ ~EndPending => NextItem.item # "None"
          /\ pClosed /\ pWire = <<>>
             => /\ NextItem.item = "Err"
                /\ pPc' = "iterating"
                /\ pWire' = <<>> /\ pClosed']_vars

\* the service sent one peer and closed the connection; the iterator
\* yielded the peer and then an error on each of three further calls
C36_Witness ==
    /\ pClosed /\ pLog = <<InfoFrame(0, 1, <<>>)>>
    /\ Len(pItems) = 4 /\ pItems[1].item = "Ok"
    /\ \A i \in 2..4 : pItems[i].item = "Err" /\ pItems[i].err = "ReadMessage"
    /\ pPc = "iterating"

-----------------------------------------------------------------------------
(* Configuration values (src/configuration/configuration.rs).  A Cfg is a  *)
(* map from section names to maps from keys to values; an Option is the    *)
(* empty sequence or a sequence of one value.                              *)

\* Cfg::empty
Cfg_empty == EmptyMap

\* self.data.get(section) followed by map.get(key), the lookup that get_int,
\* get_float, get_relative_time and get_filename start with
Cfg_get(data, section, key) ==
    IF section \in DOMAIN data /\ key \in DOMAIN data[section]
    THEN <<data[section][key]>>
    ELSE <<>>

\* Cfg::set_string: the value of an existing key is swapped out and
\* returned; in an existing section without the key the value is inserted
\* under section.into_owned(); a new section gets a map of the one key
set_string(data, section, key, value) ==
    IF section \in DOMAIN data
    THEN IF key \in DOMAIN data[section]
         THEN [data |-> [data EXCEPT ![section][key] = value],
               ret |-> <<data[section][key]>>]
         ELSE [data |-> [data EXCEPT ![section] = Insert(@, section, value)],
               ret |-> <<>>]
    ELSE [data |-> Insert(data, section, Insert(EmptyMap, key, value)),
          ret |-> <<>>]

\* Cfg::merge: every section of other is drained into self; the keys of a
\* section self holds already are inserted into its map, over the values it
\* had, and a section it does not hold is moved in whole
merge(data, other) ==
    [sec \in DOMAIN data \cup DOMAIN other |->
        IF sec \notin DOMAIN other THEN data[sec]
        ELSE IF sec \notin DOMAIN data THEN other[sec]
        ELSE [k \in DOMAIN data[sec] \cup DOMAIN other[sec] |->
                 IF k \in DOMAIN other[sec] THEN other[sec][k] ELSE data[sec][k]]]

\* the sections, keys and values of the calls
CfgSections == {"PATHS", "arm"}
CfgKeys == {"IN_PATHS", "PORT"}
CfgValues == {"in_paths", "x"}

\* the Cfgs merged in: what Cfg::deserialize made of a file with one
\* section of one key or of two keys (a section holds a key or more: the
\* entry of a section is made with its first key)
CfgOthers ==
    {Insert(EmptyMap, "arm", Insert(EmptyMap, "PORT", "x")),
     Insert(EmptyMap, "PATHS",
            Insert(Insert(EmptyMap, "IN_PATHS", "x"), "PORT", "in_paths")),
     Insert(EmptyMap, "PATHS", Insert(EmptyMap, "PORT", "x"))}

\* fnOut is the Cfg and the return value of the latest call, fnIn the Cfg
\* before that call, the name of the call and its arguments
CfgInit ==
    /\ fnName = "Cfg" /\ fnIn = <<>>
    /\ fnOut = [data |-> Cfg_empty, ret |-> <<>>]

CfgSetString(section, key, value) ==
    /\ fnName = "Cfg"
    /\ fnIn' = <<fnOut.data, "set_string", section, key, value>>
    /\ fnOut' = set_string(fnOut.data, section, key, value)
    /\ UNCHANGED <<gnsVars, idVars, allocVars, peerVars, svcVars, fnName>>

CfgMerge(other) ==
    /\ fnName = "Cfg"
    /\ fnIn' = <<fnOut.data, "merge", other>>
    /\ fnOut' = [data |-> merge(fnOut.data, other), ret |-> <<>>]
    /\ UNCHANGED <<gnsVars, idVars, allocVars, peerVars, svcVars, fnName>>

CfgStep ==
    \/ \E section \in CfgSections, key \in CfgKeys, value \in CfgValues :
           CfgSetString(section, key, value)
    \/ \E other \in CfgOthers : CfgMerge(other)

InitCfg == GnsInit /\ IdInit /\ AllocIdle /\ PeersIdle /\ SvcIdle /\ CfgInit
SpecCfg == InitCfg /\ [][CfgStep]_vars

\* C37: after set_string(section, key, value) the lookup of (section, key)
\* yields value, every other (section, key) looks up as before, and the call
\* returned what (section, key) looked up as before.
C37_SetStringSets ==
    fnName = "Cfg" /\ fnIn # <<>> /\ fnIn[2] = "set_string"
    => LET before == fnIn[1]
           section == fnIn[3]
           key == fnIn[4]
           value == fnIn[5]
       IN  /\ Cfg_get(fnOut.data, section, key) = <<value>>
           /\ fnOut.ret = Cfg_get(before, section, key)
           /\ \A sec \in CfgSections, k \in CfgKeys \cup CfgSections :
                  <<sec, k>> # <<section, key>>
                  => Cfg_get(fnOut.data, sec, k) = Cfg_get(before, sec, k)

====
